---- MODULE Spec2Model ----
(***************************************************************************)
(* HX-20 tape encoder (hx20tape): the pulse encoder, the Kermit checksum,  *)
(* the block framer, the metadata records and the program encoder of       *)
(* class HX20TapeEncoder, as a state machine.                              *)
(*                                                                         *)
(* The sample buffer audioData is kept pulse by pulse: each element is the *)
(* duration in microseconds handed to addPulse, which stands for the run   *)
(* of samples that call appends.  Bytes are numbers in 0..255, characters  *)
(* their ASCII codes.                                                      *)
(***************************************************************************)
EXTENDS Integers, Sequences, FiniteSets, TLC

\* ------------------------------------------------------------ constants
SAMPLE_RATE == 11025
PULSE_SHORT == 545
PULSE_LONG == 1080
SYNC_BITS == 80
DATA_BLOCK_SIZE == 256
HEADER_SIZE == 80
FILE_GAP_BYTES == 614
BLOCK_GAP_BYTES == 100
HEADER_GAP_BYTES == 100
DATA_GAP_BYTES == 300
KERMIT_POLY == 33800      \* 0x8408
WORD == 65536             \* range of uint16_t

\* ------------------------------------------------------------ bounds
MaxChunks == 2            \* program texts reach MaxChunks full data blocks (+1 byte)
MaxCrcLen == 3            \* checksum inputs: every sequence up to this length
MaxPayload == 2           \* addBlock payloads of the framer specification

BasicType == {"ASCII", "TOKEN", "SEQUENTIAL", "BINARY"}

\* ------------------------------------------------------------ helpers
Bit(x, i) == (x \div (2 ^ i)) % 2

RECURSIVE BitXor(_, _)
BitXor(a, b) ==
  IF a = 0 THEN b
  ELSE IF b = 0 THEN a
  ELSE (((a % 2) + (b % 2)) % 2) + 2 * BitXor(a \div 2, b \div 2)

\* a ^ b on bytes, tabulated once
XorTable == [a \in 0..255 |-> [b \in 0..255 |-> BitXor(a, b)]]

\* a ^ b on uint16_t values
Xor16(a, b) ==
  XorTable[a % 256][b % 256] + (256 * XorTable[a \div 256][b \div 256])

\* ------------------------------------------------------------ checksum
\* KermitRound with the polynomial applied before the shift
KermitRoundXorFirst(crc) ==
  IF crc % 2 = 1 THEN Xor16(crc, KERMIT_POLY) \div 2 ELSE crc \div 2

\* one round of the inner loop of calculateCRC_Kermit
KermitRound(crc) ==
  IF crc % 2 = 1 THEN Xor16(crc \div 2, KERMIT_POLY) ELSE crc \div 2

RECURSIVE KermitRounds(_, _)
KermitRounds(crc, n) ==
  IF n = 0 THEN crc ELSE KermitRounds(KermitRound(crc), n - 1)

\* the body of the outer loop: crc ^= byte, then 8 rounds
KermitByte(crc, byte) == KermitRounds(Xor16(crc, byte), 8)

\* the outer loop over data[lo..hi], starting from accumulator crc; the range is
\* walked in order; it is split in halves, and the left half's value (always a
\* uint16_t) is tested before the right half starts, only to keep TLC's
\* evaluation shallow
RECURSIVE KermitFold(_, _, _, _)
KermitFold(data, crc, lo, hi) ==
  IF lo > hi THEN crc
  ELSE IF lo = hi THEN KermitByte(crc, data[lo])
  ELSE LET mid == (lo + hi) \div 2
           left == KermitFold(data, crc, lo, mid)
       IN IF left < WORD THEN KermitFold(data, left, mid + 1, hi) ELSE left

\* the checksum started at 0xFFFF instead of 0
calculateCRC_KermitFromOnes(data) == KermitFold(data, 65535, 1, Len(data))

calculateCRC_Kermit(data) == KermitFold(data, 0, 1, Len(data))

\* ------------------------------------------------------------ pulse encoder
\* addPulse(durationUs): the pulse appended to the buffer (one element)
addPulse(durationUs) == <<durationUs>>

\* addBit(bit): a long pulse for 1, a short pulse for 0
addBit(bit) == IF bit = 1 THEN addPulse(PULSE_LONG) ELSE addPulse(PULSE_SHORT)

\* addByte sending the most significant bit first
addByteMsbFirst(byte) ==
  [k \in 1..9 |-> IF k <= 8 THEN addBit(Bit(byte, 8 - k))[1] ELSE addBit(1)[1]]

\* addByte(byte): bits 0..7, least significant first, then the stop bit
addByte(byte) ==
  [k \in 1..9 |-> IF k <= 8 THEN addBit(Bit(byte, k - 1))[1] ELSE addBit(1)[1]]

\* addByte of every byte value, computed once
ByteFrames == [byte \in 0..255 |-> addByte(byte)]

\* the pulses of addByte applied to every byte of bytes, in order
addBytes(bytes) ==
  [k \in 1..(9 * Len(bytes)) |-> ByteFrames[bytes[((k - 1) \div 9) + 1]][((k - 1) % 9) + 1]]

addSyncField == [k \in 1..SYNC_BITS |-> addBit(0)[1]]

addPreamble == addBit(1) \o addByte(255) \o addByte(170)

\* addPostamble with its two bytes in the other order
addPostambleSwapped == addByte(0) \o addByte(170)

addPostamble == addByte(170) \o addByte(0)

addFileGap == addBytes([k \in 1..FILE_GAP_BYTES |-> 255])

addInterblockGap(bytes) == addBytes([k \in 1..bytes |-> 255])

\* ------------------------------------------------------------ block framer
\* BlockBody with the copy index pushed before the block number
BlockBodyIdFirst(blockType, blockNumber, blockID, data) ==
  <<blockType % 256,
    blockID % 256,
    ((blockNumber % WORD) \div 256) % 256,
    (blockNumber % WORD) % 256>> \o data

\* the identification field and the data field of addBlock; blockType is stored
\* in a byte, blockNumber is a uint16_t parameter, blockID a uint8_t
BlockBody(blockType, blockNumber, blockID, data) ==
  <<blockType % 256,
    ((blockNumber % WORD) \div 256) % 256,
    (blockNumber % WORD) % 256,
    blockID % 256>> \o data

\* BlockFrame with the checksum pushed high byte first
BlockFrameCrcMsbFirst(blockType, blockNumber, blockID, data) ==
  LET body == BlockBody(blockType, blockNumber, blockID, data)
      crc == calculateCRC_Kermit(body)
  IN body \o <<(crc \div 256) % 256, crc % 256>>

\* blockData after the two checksum bytes are pushed
BlockFrame(blockType, blockNumber, blockID, data) ==
  LET body == BlockBody(blockType, blockNumber, blockID, data)
      crc == calculateCRC_Kermit(body)
  IN body \o <<crc % 256, (crc \div 256) % 256>>

\* addBlock without the gap at its end
addBlockNoGap(blockType, blockNumber, blockID, data) ==
  addSyncField \o addPreamble
    \o addBytes(BlockFrame(blockType, blockNumber, blockID, data))
    \o addPostamble

\* the pulses one addBlock call appends
addBlock(blockType, blockNumber, blockID, data) ==
  addSyncField \o addPreamble
    \o addBytes(BlockFrame(blockType, blockNumber, blockID, data))
    \o addPostamble \o addInterblockGap(BLOCK_GAP_BYTES)

\* what addBlock prints when DEBUG is set: the header fields and blockData
BlockDump(debug, blockType, blockNumber, blockID, data) ==
  IF debug
  THEN <<[type |-> blockType % 256, number |-> blockNumber % WORD, copy |-> blockID % 256,
          bytes |-> BlockFrame(blockType, blockNumber, blockID, data)]>>
  ELSE <<>>

\* ------------------------------------------------------------ metadata
\* "%02d" of a value in 0..99
Dec2(n) == <<48 + (n \div 10), 48 + (n % 10)>>

\* snprintf(dateStr, 7, "%02d%02d%02d", tm_mon + 1, tm_mday, tm_year % 100)
DateStr(t) == Dec2(t.tm_mon + 1) \o Dec2(t.tm_mday) \o Dec2(t.tm_year % 100)

\* snprintf(timeStr, 7, "%02d%02d%02d", tm_hour, tm_min, tm_sec)
TimeStr(t) == Dec2(t.tm_hour) \o Dec2(t.tm_min) \o Dec2(t.tm_sec)

SysName == <<72, 88, 45, 50, 48, 32, 32, 32>>      \* "HX-20   "

\* offset o (0-based) of the record createHeaderData returns
HeaderByte(o, filename, type, t) ==
  CASE o = 0 -> 72 [] o = 1 -> 68 [] o = 2 -> 82 [] o = 3 -> 49      \* "HDR1"
    [] o \in 4..11 -> IF o - 4 < Len(filename) THEN filename[o - 3] ELSE 32
    [] o = 15 -> (CASE type = "SEQUENTIAL" -> 1 [] type = "BINARY" -> 2 [] OTHER -> 0)
    [] o \in 16..17 -> (CASE type = "ASCII" -> 255 [] type = "TOKEN" -> 0
                          [] type = "SEQUENTIAL" -> 255 [] OTHER -> 0)
    [] o \in 18..19 -> 0
    [] o = 20 -> 50                                                 \* '2'
    [] o = 21 -> 83                                                 \* 'S'
    [] o \in 22..23 -> 32
    [] o = 24 -> ((DATA_BLOCK_SIZE \div 100) % 10) + 48
    [] o = 25 -> ((DATA_BLOCK_SIZE \div 10) % 10) + 48
    [] o = 26 -> (DATA_BLOCK_SIZE % 10) + 48
    [] o \in 32..37 -> DateStr(t)[o - 31]
    [] o \in 38..43 -> TimeStr(t)[o - 37]
    [] o = 50 -> 48 [] o = 51 -> 49                                 \* "01"
    [] o \in 52..59 -> SysName[o - 51]
    [] OTHER -> 32

createHeaderData(filename, type, t) ==
  [k \in 1..HEADER_SIZE |-> HeaderByte(k - 1, filename, type, t)]

\* FooterByte with TOKEN also writing ASCII's 0xFF pair (a combination of patterns)
FooterByteTokenFlagged(o, filename, type, t) ==
  CASE o = 0 -> 69 [] o = 1 -> 79 [] o = 2 -> 70 [] o = 3 -> 68
    [] o \in 4..11 -> IF o - 4 < Len(filename) THEN filename[o - 3] ELSE 32
    [] o = 15 -> (CASE type = "SEQUENTIAL" -> 1 [] type = "BINARY" -> 2 [] OTHER -> 0)
    [] o \in 16..17 -> (CASE type = "ASCII" -> 255 [] type = "TOKEN" -> 255
                          [] type = "SEQUENTIAL" -> 255 [] OTHER -> 0)
    [] o \in 18..19 -> 0
    [] o = 20 -> 50
    [] o = 21 -> 83
    [] o \in 22..23 -> 32
    [] o = 24 -> ((DATA_BLOCK_SIZE \div 100) % 10) + 48
    [] o = 25 -> ((DATA_BLOCK_SIZE \div 10) % 10) + 48
    [] o = 26 -> (DATA_BLOCK_SIZE % 10) + 48
    [] o \in 32..37 -> DateStr(t)[o - 31]
    [] o \in 38..43 -> TimeStr(t)[o - 37]
    [] o = 50 -> 48 [] o = 51 -> 49
    [] o \in 52..59 -> SysName[o - 51]
    [] OTHER -> 32

\* offset o (0-based) of the record createFooterData returns
FooterByte(o, filename, type, t) ==
  CASE o = 0 -> 69 [] o = 1 -> 79 [] o = 2 -> 70 [] o = 3 -> 68      \* "EOFD"
    [] o \in 4..11 -> IF o - 4 < Len(filename) THEN filename[o - 3] ELSE 32
    [] o = 15 -> (CASE type = "SEQUENTIAL" -> 1 [] type = "BINARY" -> 2 [] OTHER -> 0)
    [] o \in 16..17 -> (CASE type = "ASCII" -> 255 [] type = "TOKEN" -> 0
                          [] type = "SEQUENTIAL" -> 255 [] OTHER -> 0)
    [] o \in 18..19 -> 0
    [] o = 20 -> 50
    [] o = 21 -> 83
    [] o \in 22..23 -> 32
    [] o = 24 -> ((DATA_BLOCK_SIZE \div 100) % 10) + 48
    [] o = 25 -> ((DATA_BLOCK_SIZE \div 10) % 10) + 48
    [] o = 26 -> (DATA_BLOCK_SIZE % 10) + 48
    [] o \in 32..37 -> DateStr(t)[o - 31]
    [] o \in 38..43 -> TimeStr(t)[o - 37]
    [] o = 50 -> 48 [] o = 51 -> 49
    [] o \in 52..59 -> SysName[o - 51]
    [] OTHER -> 32

\* createFooterData writing the header's bytes, tag included
createFooterDataHeaderTag(filename, type, t) ==
  [k \in 1..HEADER_SIZE |-> HeaderByte(k - 1, filename, type, t)]

createFooterData(filename, type, t) ==
  [k \in 1..HEADER_SIZE |-> FooterByte(k - 1, filename, type, t)]

\* every computed sample is written: an odd count gives the rising half one more
PulseSamplesOddKept(durationUs) ==
  LET samples == (durationUs * SAMPLE_RATE) \div 1000000
      halfSamples == samples \div 2
  IN [k \in 1..(samples - halfSamples) |-> IF 2 * (k - 1) < halfSamples THEN 128 ELSE 129]
       \o [k \in 1..halfSamples |-> IF 2 * (k - 1) <= halfSamples THEN 129 ELSE 128]

\* ------------------------------------------------------------ amplitude normalizer
\* The samples one addPulse call appends: samples / 2 rising and as many falling
\* values, (uint8_t)(129 + tanh(4 (t - 0.5))) and (uint8_t)(129 - tanh(..)) with
\* t = k / halfSamples.  |tanh| < 1, so the truncation leaves 128 where the
\* term is negative and 129 elsewhere.
PulseSamples(durationUs) ==
  LET samples == (durationUs * SAMPLE_RATE) \div 1000000
      halfSamples == samples \div 2
  IN [k \in 1..halfSamples |-> IF 2 * (k - 1) < halfSamples THEN 128 ELSE 129]
       \o [k \in 1..halfSamples |-> IF 2 * (k - 1) <= halfSamples THEN 129 ELSE 128]

\* the samples of pulses[lo..hi]
RECURSIVE SamplesBetween(_, _, _)
SamplesBetween(pulses, lo, hi) ==
  IF lo > hi THEN <<>>
  ELSE IF lo = hi THEN PulseSamples(pulses[lo])
  ELSE LET mid == (lo + hi) \div 2
       IN SamplesBetween(pulses, lo, mid) \o SamplesBetween(pulses, mid + 1, hi)

\* the sample buffer a sequence of addPulse calls leaves
SamplesOf(pulses) == SamplesBetween(pulses, 1, Len(pulses))

\* IEEE-754 double arithmetic as normalizeAudio uses it (round to nearest, ties
\* to even, every operation rounded).  A natural number is kept as its digits
\* in base LIMB, least significant first and without leading zeros; a double
\* is such a number m (of at most SIGNIFICAND bits, or that power of two)
\* and the weight 2^e of its lowest bit.
SIGNIFICAND == 53

LIMB_BITS == 15

LIMB == 2 ^ LIMB_BITS

\* limbs produced after the point when dividing: more than SIGNIFICAND + 1
\* significant bits for every quotient of two integers below 1024
QUOTIENT_LIMBS == 6

RECURSIVE Digits(_)
Digits(n) == IF n = 0 THEN <<>> ELSE <<n % LIMB>> \o Digits(n \div LIMB)

RECURSIVE DigitsValue(_)
DigitsValue(d) == IF d = <<>> THEN 0 ELSE d[1] + (LIMB * DigitsValue(Tail(d)))

Zeros(n) == [k \in 1..n |-> 0]

RECURSIVE Trim(_)
Trim(d) == IF d # <<>> /\ d[Len(d)] = 0 THEN Trim(SubSeq(d, 1, Len(d) - 1)) ELSE d

\* d * k + carry for k up to LIMB
RECURSIVE TimesSmall(_, _, _)
TimesSmall(d, k, carry) ==
  IF d = <<>> THEN Digits(carry)
  ELSE LET t == (d[1] * k) + carry
       IN <<t % LIMB>> \o TimesSmall(Tail(d), k, t \div LIMB)

RECURSIVE Plus(_, _, _)
Plus(a, b, carry) ==
  IF a = <<>> /\ b = <<>> THEN Digits(carry)
  ELSE LET x == IF a = <<>> THEN 0 ELSE a[1]
           y == IF b = <<>> THEN 0 ELSE b[1]
           t == x + y + carry
       IN <<t % LIMB>> \o Plus(IF a = <<>> THEN a ELSE Tail(a),
                               IF b = <<>> THEN b ELSE Tail(b), t \div LIMB)

\* a - b - borrow for a >= b
RECURSIVE Minus(_, _, _)
Minus(a, b, borrow) ==
  IF a = <<>> THEN <<>>
  ELSE LET y == IF b = <<>> THEN 0 ELSE b[1]
           t == a[1] - y - borrow
       IN <<t % LIMB>> \o Minus(Tail(a), IF b = <<>> THEN b ELSE Tail(b),
                                IF t < 0 THEN 1 ELSE 0)

\* a < b
Less(a, b) ==
  \/ Len(a) < Len(b)
  \/ /\ Len(a) = Len(b)
     /\ \E k \in 1..Len(a) : a[k] < b[k] /\ \A j \in (k + 1)..Len(a) : a[j] = b[j]

RECURSIVE BitLength(_)
BitLength(x) == IF x = 0 THEN 0 ELSE 1 + BitLength(x \div 2)

\* the number of significant bits of d
Bits(d) == IF d = <<>> THEN 0 ELSE (LIMB_BITS * (Len(d) - 1)) + BitLength(d[Len(d)])

\* d * 2^e rounded to SIGNIFICAND significant bits, ties to even: d is shifted
\* left by s bits so that the bits to drop are its j lowest limbs
RoundDouble(d, e) ==
  IF Bits(d) <= SIGNIFICAND THEN [m |-> d, e |-> e]
  ELSE LET k == Bits(d) - SIGNIFICAND
           s == (LIMB_BITS - (k % LIMB_BITS)) % LIMB_BITS
           x == TimesSmall(d, 2 ^ s, 0)
           j == (k + s) \div LIMB_BITS
           keep == SubSeq(x, j + 1, Len(x))
           half == x[j] >= LIMB \div 2
           sticky == (x[j] % (LIMB \div 2) # 0) \/ (\E q \in 1..(j - 1) : x[q] # 0)
           up == half /\ (sticky \/ keep[1] % 2 = 1)
       IN [m |-> IF up THEN Plus(keep, <<1>>, 0) ELSE keep,
           e |-> (e - s) + (LIMB_BITS * j)]

\* long division: k more quotient limbs of r / d after the limbs acc
RECURSIVE DivideDigits(_, _, _, _)
DivideDigits(r, d, k, acc) ==
  IF k = 0 THEN [q |-> acc, r |-> r]
  ELSE DivideDigits((LIMB * r) % d, d, k - 1, <<(LIMB * r) \div d>> \o acc)

\* the double n / d of two positive integers (both exact doubles); a
\* remainder left after the last limb counts as one more bit below it
DivideDouble(n, d) ==
  LET res == DivideDigits(n % d, d, QUOTIENT_LIMBS, Digits(n \div d))
      inexact == IF res.r # 0 THEN 1 ELSE 0
  IN RoundDouble(Trim(<<inexact>> \o res.q), 0 - (LIMB_BITS * (QUOTIENT_LIMBS + 1)))

\* 2^n * 2^e written with lowest bit weight 2^e, for e <= 0
PowerOfTwo(n, e) ==
  Zeros((0 - e) \div LIMB_BITS) \o Digits((2 ^ n) * (2 ^ ((0 - e) % LIMB_BITS)))

\* (uint8_t) of 128.0 + (c / 2) * scale after the two clamps, for a positive
\* double scale: the product is rounded, then the sum
ScaledSample(c, scale) ==
  LET cAbs == IF c < 0 THEN 0 - c ELSE c
      scaled == RoundDouble(Trim(TimesSmall(scale.m, cAbs, 0)), scale.e - 1)
      base == PowerOfTwo(7, scaled.e)
      negative == c < 0 /\ Less(base, scaled.m)
      result == IF c < 0 THEN RoundDouble(Trim(Minus(base, scaled.m, 0)), scaled.e)
                ELSE RoundDouble(Plus(base, scaled.m, 0), scaled.e)
      whole == DigitsValue(SubSeq(result.m, ((0 - result.e) \div LIMB_BITS) + 1,
                                  Len(result.m)))
                 \div (2 ^ ((0 - result.e) % LIMB_BITS))
  IN IF negative THEN 0                       \* result < 0
     ELSE IF whole > 255 THEN 255             \* result > 255
     ELSE whole

SampleValues(samples) == {samples[k] : k \in 1..Len(samples)}

\* the scan of lines 459-463
SeqMin(samples) == CHOOSE x \in SampleValues(samples) : \A y \in SampleValues(samples) : x <= y

SeqMax(samples) == CHOOSE x \in SampleValues(samples) : \A y \in SampleValues(samples) : x >= y

\* normalizeAudio scaling by the full range max - min instead of half of it
normalizeAudioFullRange(samples, targetAmplitude) ==
  IF samples = <<>> THEN samples
  ELSE LET minVal == SeqMin(samples)
           maxVal == SeqMax(samples)
       IN IF 10 * (maxVal - minVal) < 2 THEN samples
          ELSE LET scale == DivideDouble(targetAmplitude, maxVal - minVal)
               IN [k \in 1..Len(samples) |->
                     ScaledSample((2 * samples[k]) - (minVal + maxVal), scale)]

\* normalizeAudio without the amplitude guard: a flat buffer is moved to the
\* centre value 128
normalizeAudioFlatCentred(samples, targetAmplitude) ==
  IF samples = <<>> THEN samples
  ELSE LET minVal == SeqMin(samples)
           maxVal == SeqMax(samples)
       IN IF minVal = maxVal THEN [k \in 1..Len(samples) |-> 128]
          ELSE LET scale == DivideDouble(2 * targetAmplitude, maxVal - minVal)
               IN [k \in 1..Len(samples) |->
                     ScaledSample((2 * samples[k]) - (minVal + maxVal), scale)]

\* normalizeAudio(targetAmplitude) on a buffer of samples: the buffer after it
normalizeAudio(samples, targetAmplitude) ==
  IF samples = <<>> THEN samples
  ELSE LET minVal == SeqMin(samples)
           maxVal == SeqMax(samples)
           \* currentCenter = (minVal + maxVal) / 2.0, currentAmplitude =
           \* (maxVal - minVal) / 2.0, both exact
       IN IF 10 * (maxVal - minVal) < 2 THEN samples      \* currentAmplitude < 0.1
          ELSE LET scale == DivideDouble(2 * targetAmplitude, maxVal - minVal)
               IN [k \in 1..Len(samples) |->
                     ScaledSample((2 * samples[k]) - (minVal + maxVal), scale)]

\* ------------------------------------------------------------ tokenizer
\* hx20tokenizer: the keyword tables in the order the loops visit them (the
\* maps from their last key to their first), the line tokenizer, the program
\* tokenizer, the detokenizer and main
FUNCTION_ESCAPE == 255

INT_MAX == 2147483647

basicCommands ==
  <<[keyword |-> <<94>>, token |-> 225],    \* ^
    [keyword |-> <<92>>, token |-> 232],    \* \
    [keyword |-> <<88, 79, 82>>, token |-> 228],    \* XOR
    [keyword |-> <<87, 73, 78, 68>>, token |-> 197],    \* WIND
    [keyword |-> <<87, 73, 68, 84, 72>>, token |-> 192],    \* WIDTH
    [keyword |-> <<87, 72, 73, 76, 69>>, token |-> 168],    \* WHILE
    [keyword |-> <<87, 69, 78, 68>>, token |-> 169],    \* WEND
    [keyword |-> <<85, 83, 82>>, token |-> 213],    \* USR
    [keyword |-> <<85, 83, 73, 78, 71>>, token |-> 212],    \* USING
    [keyword |-> <<84, 82, 79, 78>>, token |-> 144],    \* TRON
    [keyword |-> <<84, 82, 79, 70, 70>>, token |-> 145],    \* TROFF
    [keyword |-> <<84, 79>>, token |-> 208],    \* TO
    [keyword |-> <<84, 73, 84, 76, 69>>, token |-> 202],    \* TITLE
    [keyword |-> <<84, 72, 69, 78>>, token |-> 218],    \* THEN
    [keyword |-> <<84, 65, 66>>, token |-> 207],    \* TAB
    [keyword |-> <<83, 87, 65, 80>>, token |-> 146],    \* SWAP
    [keyword |-> <<83, 85, 66>>, token |-> 209],    \* SUB
    [keyword |-> <<83, 84, 79, 80>>, token |-> 142],    \* STOP
    [keyword |-> <<83, 84, 69, 80>>, token |-> 220],    \* STEP
    [keyword |-> <<83, 84, 65, 84>>, token |-> 203],    \* STAT
    [keyword |-> <<83, 80, 67>>, token |-> 211],    \* SPC
    [keyword |-> <<83, 79, 85, 78, 68>>, token |-> 182],    \* SOUND
    [keyword |-> <<83, 67, 82, 79, 76, 76>>, token |-> 181],    \* SCROLL
    [keyword |-> <<83, 67, 82, 69, 69, 78>>, token |-> 199],    \* SCREEN
    [keyword |-> <<83, 65, 86, 69, 77>>, token |-> 174],    \* SAVEM
    [keyword |-> <<83, 65, 86, 69>>, token |-> 175],    \* SAVE
    [keyword |-> <<82, 85, 78>>, token |-> 136],    \* RUN
    [keyword |-> <<82, 69, 84, 85, 82, 78>>, token |-> 139],    \* RETURN
    [keyword |-> <<82, 69, 83, 85, 77, 69>>, token |-> 157],    \* RESUME
    [keyword |-> <<82, 69, 83, 84, 79, 82, 69>>, token |-> 138],    \* RESTORE
    [keyword |-> <<82, 69, 78, 85, 77>>, token |-> 155],    \* RENUM
    [keyword |-> <<82, 69, 77>>, token |-> 140],    \* REM
    [keyword |-> <<82, 69, 65, 68>>, token |-> 133],    \* READ
    [keyword |-> <<82, 65, 78, 68, 79, 77, 73, 90, 69>>, token |-> 167],    \* RANDOMIZE
    [keyword |-> <<80, 85, 84>>, token |-> 186],    \* PUT
    [keyword |-> <<80, 83, 69, 84>>, token |-> 193],    \* PSET
    [keyword |-> <<80, 82, 73, 78, 84>>, token |-> 162],    \* PRINT
    [keyword |-> <<80, 82, 69, 83, 69, 84>>, token |-> 194],    \* PRESET
    [keyword |-> <<80, 79, 75, 69>>, token |-> 161],    \* POKE
    [keyword |-> <<80, 67, 79, 80, 89>>, token |-> 204],    \* PCOPY
    [keyword |-> <<79, 82>>, token |-> 227],    \* OR
    [keyword |-> <<79, 80, 84, 73, 79, 78>>, token |-> 166],    \* OPTION
    [keyword |-> <<79, 80, 69, 78>>, token |-> 178],    \* OPEN
    [keyword |-> <<79, 78>>, token |-> 152],    \* ON
    [keyword |-> <<79, 70, 70>>, token |-> 216],    \* OFF
    [keyword |-> <<78, 79, 84>>, token |-> 219],    \* NOT
    [keyword |-> <<78, 69, 88, 84>>, token |-> 130],    \* NEXT
    [keyword |-> <<78, 69, 87>>, token |-> 170],    \* NEW
    [keyword |-> <<77, 79, 84, 79, 82>>, token |-> 185],    \* MOTOR
    [keyword |-> <<77, 79, 78>>, token |-> 183],    \* MON
    [keyword |-> <<77, 79, 68>>, token |-> 231],    \* MOD
    [keyword |-> <<77, 69, 82, 71, 69>>, token |-> 177],    \* MERGE
    [keyword |-> <<77, 69, 77, 83, 69, 84>>, token |-> 205],    \* MEMSET
    [keyword |-> <<76, 80, 82, 73, 78, 84>>, token |-> 153],    \* LPRINT
    [keyword |-> <<76, 79, 71, 73, 78>>, token |-> 201],    \* LOGIN
    [keyword |-> <<76, 79, 67, 65, 84, 69, 83>>, token |-> 188],    \* LOCATES
    [keyword |-> <<76, 79, 67, 65, 84, 69>>, token |-> 189],    \* LOCATE
    [keyword |-> <<76, 79, 65, 68, 77>>, token |-> 172],    \* LOADM
    [keyword |-> <<76, 79, 65, 68, 63>>, token |-> 173],    \* LOAD?
    [keyword |-> <<76, 79, 65, 68>>, token |-> 176],    \* LOAD
    [keyword |-> <<76, 76, 73, 83, 84>>, token |-> 154],    \* LLIST
    [keyword |-> <<76, 73, 83, 84>>, token |-> 164],    \* LIST
    [keyword |-> <<76, 73, 78, 69>>, token |-> 180],    \* LINE
    [keyword |-> <<76, 69, 84>>, token |-> 134],    \* LET
    [keyword |-> <<75, 69, 89>>, token |-> 191],    \* KEY
    [keyword |-> <<73, 77, 80>>, token |-> 230],    \* IMP
    [keyword |-> <<73, 70>>, token |-> 137],    \* IF
    [keyword |-> <<71, 79>>, token |-> 135],    \* GO
    [keyword |-> <<71, 69, 84>>, token |-> 187],    \* GET
    [keyword |-> <<71, 67, 76, 83>>, token |-> 198],    \* GCLS
    [keyword |-> <<70, 79, 82>>, token |-> 129],    \* FOR
    [keyword |-> <<70, 78>>, token |-> 210],    \* FN
    [keyword |-> <<70, 73, 76, 69, 83>>, token |-> 184],    \* FILES
    [keyword |-> <<69, 88, 69, 67>>, token |-> 196],    \* EXEC
    [keyword |-> <<69, 82, 82, 79, 82>>, token |-> 156],    \* ERROR
    [keyword |-> <<69, 82, 82>>, token |-> 215],    \* ERR
    [keyword |-> <<69, 82, 76>>, token |-> 214],    \* ERL
    [keyword |-> <<69, 82, 65, 83, 69>>, token |-> 171],    \* ERASE
    [keyword |-> <<69, 81, 86>>, token |-> 229],    \* EQV
    [keyword |-> <<69, 78, 68>>, token |-> 128],    \* END
    [keyword |-> <<69, 76, 83, 69>>, token |-> 143],    \* ELSE
    [keyword |-> <<68, 73, 77>>, token |-> 132],    \* DIM
    [keyword |-> <<68, 69, 76, 69, 84, 69>>, token |-> 159],    \* DELETE
    [keyword |-> <<68, 69, 70, 83, 84, 82>>, token |-> 147],    \* DEFSTR
    [keyword |-> <<68, 69, 70, 83, 78, 71>>, token |-> 149],    \* DEFSNG
    [keyword |-> <<68, 69, 70, 73, 78, 84>>, token |-> 148],    \* DEFINT
    [keyword |-> <<68, 69, 70, 70, 73, 76>>, token |-> 151],    \* DEFFIL
    [keyword |-> <<68, 69, 70, 68, 66, 76>>, token |-> 150],    \* DEFDBL
    [keyword |-> <<68, 69, 70>>, token |-> 160],    \* DEF
    [keyword |-> <<68, 65, 84, 65>>, token |-> 131],    \* DATA
    [keyword |-> <<67, 79, 80, 89>>, token |-> 195],    \* COPY
    [keyword |-> <<67, 79, 78, 84>>, token |-> 163],    \* CONT
    [keyword |-> <<67, 79, 76, 79, 82>>, token |-> 200],    \* COLOR
    [keyword |-> <<67, 76, 83>>, token |-> 190],    \* CLS
    [keyword |-> <<67, 76, 79, 83, 69>>, token |-> 179],    \* CLOSE
    [keyword |-> <<67, 76, 69, 65, 82>>, token |-> 165],    \* CLEAR
    [keyword |-> <<66, 65, 83, 69>>, token |-> 206],    \* BASE
    [keyword |-> <<65, 85, 84, 79>>, token |-> 158],    \* AUTO
    [keyword |-> <<65, 78, 68>>, token |-> 226],    \* AND
    [keyword |-> <<65, 76, 76>>, token |-> 217],    \* ALL
    [keyword |-> <<62>>, token |-> 233],    \* >
    [keyword |-> <<61>>, token |-> 234],    \* =
    [keyword |-> <<60>>, token |-> 235],    \* <
    [keyword |-> <<47>>, token |-> 224],    \* /
    [keyword |-> <<45>>, token |-> 222],    \* -
    [keyword |-> <<43>>, token |-> 221],    \* +
    [keyword |-> <<42>>, token |-> 223],    \* *
    [keyword |-> <<39>>, token |-> 141]>>    \* '

basicFunctions ==
  <<[keyword |-> <<86, 65, 82, 80, 84, 82>>, token |-> 159],    \* VARPTR
    [keyword |-> <<86, 65, 76>>, token |-> 143],    \* VAL
    [keyword |-> <<84, 73, 77, 69>>, token |-> 162],    \* TIME
    [keyword |-> <<84, 65, 80, 67, 78, 84>>, token |-> 169],    \* TAPCNT
    [keyword |-> <<84, 65, 78>>, token |-> 138],    \* TAN
    [keyword |-> <<83, 84, 82, 73, 78, 71, 36>>, token |-> 160],    \* STRING$
    [keyword |-> <<83, 84, 82, 36>>, token |-> 142],    \* STR$
    [keyword |-> <<83, 81, 82>>, token |-> 133],    \* SQR
    [keyword |-> <<83, 80, 65, 67, 69, 36>>, token |-> 152],    \* SPACE$
    [keyword |-> <<83, 73, 78>>, token |-> 137],    \* SIN
    [keyword |-> <<83, 71, 78>>, token |-> 128],    \* SGN
    [keyword |-> <<82, 78, 68>>, token |-> 161],    \* RND
    [keyword |-> <<82, 73, 71, 72, 84, 36>>, token |-> 156],    \* RIGHT$
    [keyword |-> <<80, 79, 83>>, token |-> 132],    \* POS
    [keyword |-> <<80, 79, 73, 78, 84>>, token |-> 168],    \* POINT
    [keyword |-> <<80, 69, 69, 75>>, token |-> 140],    \* PEEK
    [keyword |-> <<79, 67, 84, 36>>, token |-> 154],    \* OCT$
    [keyword |-> <<77, 73, 68, 36>>, token |-> 157],    \* MID$
    [keyword |-> <<76, 79, 71>>, token |-> 134],    \* LOG
    [keyword |-> <<76, 79, 70>>, token |-> 147],    \* LOF
    [keyword |-> <<76, 69, 78>>, token |-> 141],    \* LEN
    [keyword |-> <<76, 69, 70, 84, 36>>, token |-> 155],    \* LEFT$
    [keyword |-> <<73, 78, 84>>, token |-> 129],    \* INT
    [keyword |-> <<73, 78, 83, 84, 82>>, token |-> 158],    \* INSTR
    [keyword |-> <<73, 78, 80, 85, 84>>, token |-> 166],    \* INPUT
    [keyword |-> <<73, 78, 75, 69, 89, 36>>, token |-> 165],    \* INKEY$
    [keyword |-> <<72, 69, 88, 36>>, token |-> 153],    \* HEX$
    [keyword |-> <<70, 82, 69>>, token |-> 131],    \* FRE
    [keyword |-> <<70, 73, 88>>, token |-> 151],    \* FIX
    [keyword |-> <<69, 88, 80>>, token |-> 135],    \* EXP
    [keyword |-> <<69, 79, 70>>, token |-> 146],    \* EOF
    [keyword |-> <<68, 65, 89>>, token |-> 164],    \* DAY
    [keyword |-> <<68, 65, 84, 69>>, token |-> 163],    \* DATE
    [keyword |-> <<67, 83, 82, 76, 73, 78>>, token |-> 167],    \* CSRLIN
    [keyword |-> <<67, 83, 78, 71>>, token |-> 149],    \* CSNG
    [keyword |-> <<67, 79, 83>>, token |-> 136],    \* COS
    [keyword |-> <<67, 73, 78, 84>>, token |-> 148],    \* CINT
    [keyword |-> <<67, 72, 82, 36>>, token |-> 145],    \* CHR$
    [keyword |-> <<67, 68, 66, 76>>, token |-> 150],    \* CDBL
    [keyword |-> <<65, 84, 78>>, token |-> 139],    \* ATN
    [keyword |-> <<65, 83, 67>>, token |-> 144],    \* ASC
    [keyword |-> <<65, 66, 83>>, token |-> 130]>>    \* ABS

\* <cctype> in the "C" locale, on bytes
isdigit(c) == c \in 48..57

isspace(c) == c \in {9, 10, 11, 12, 13, 32}

isupper(c) == c \in 65..90

islower(c) == c \in 97..122

isalpha(c) == isupper(c) \/ islower(c)

toupper(c) == IF islower(c) THEN c - 32 ELSE c

\* the first index from at on (1-based) whose byte is no digit, Len + 1 if none
SkipDigits(line, at) ==
  LET stops == {k \in at..(Len(line) + 1) : k = Len(line) + 1 \/ ~isdigit(line[k])}
  IN CHOOSE k \in stops : \A j \in stops : k <= j

\* the first index from at on whose byte is no whitespace, Len + 1 if none
SkipSpaces(line, at) ==
  LET stops == {k \in at..(Len(line) + 1) : k = Len(line) + 1 \/ ~isspace(line[k])}
  IN CHOOSE k \in stops : \A j \in stops : k <= j

\* upper == keyword for the substring of keyword's length at index at
MatchesAt(line, at, keyword) ==
  /\ at + Len(keyword) - 1 <= Len(line)
  /\ \A j \in 1..Len(keyword) : toupper(line[at + j - 1]) = keyword[j]

\* AND, OR, XOR, EQV, IMP, MOD, NOT and the keywords of one or two signs
isOperator(keyword) ==
  \/ Len(keyword) <= 2 /\ ~isalpha(keyword[1])
  \/ keyword \in {<<65, 78, 68>>, <<79, 82>>, <<88, 79, 82>>, <<69, 81, 86>>, <<73, 77, 80>>,
                  <<77, 79, 68>>, <<78, 79, 84>>}

\* a command keyword counts at index at: operators always, words by what follows
validMatch(line, at, keyword) ==
  IF isOperator(keyword) THEN TRUE
  ELSE LET nextPos == at + Len(keyword)
       IN IF nextPos > Len(line) THEN TRUE
          ELSE IF ~isalpha(line[nextPos]) THEN TRUE
          ELSE IF isupper(line[nextPos])
               THEN \/ nextPos + 1 > Len(line)
                    \/ ~isalpha(line[nextPos + 1])
                    \/ islower(line[nextPos + 1])
          ELSE islower(line[nextPos])

\* the first function keyword, in the loop's order, that matches at index at; 0 if none
matchedFunction(line, at) ==
  LET hits == {k \in 1..Len(basicFunctions) : MatchesAt(line, at, basicFunctions[k].keyword)}
  IN IF hits = {} THEN 0 ELSE CHOOSE k \in hits : \A j \in hits : k <= j

\* the first command keyword that matches at index at and counts; 0 if none
matchedCommand(line, at) ==
  LET hits == {k \in 1..Len(basicCommands) :
                 /\ MatchesAt(line, at, basicCommands[k].keyword)
                 /\ validMatch(line, at, basicCommands[k].keyword)}
  IN IF hits = {} THEN 0 ELSE CHOOSE k \in hits : \A j \in hits : k <= j

\* tokenizeBasicLine's main loop from index at on; REM and ' start a remark
RECURSIVE TokenizeFrom(_, _, _, _)
TokenizeFrom(line, at, inString, inRemark) ==
  IF at > Len(line) THEN <<>>
  ELSE LET ch == line[at]
       IN IF ch = 34 THEN <<ch>> \o TokenizeFrom(line, at + 1, ~inString, inRemark)
          ELSE IF inString \/ inRemark \/ isspace(ch)
               THEN <<ch>> \o TokenizeFrom(line, at + 1, inString, inRemark)
          ELSE LET f == matchedFunction(line, at)
                   c == matchedCommand(line, at)
               IN IF f # 0
                  THEN <<FUNCTION_ESCAPE, basicFunctions[f].token>>
                         \o TokenizeFrom(line, at + Len(basicFunctions[f].keyword),
                                         inString, inRemark)
                  ELSE IF c # 0
                  THEN <<basicCommands[c].token>>
                         \o TokenizeFrom(line, at + Len(basicCommands[c].keyword), inString,
                                         inRemark \/ basicCommands[c].keyword
                                                       \in {<<82, 69, 77>>, <<39>>})
                  ELSE <<ch>> \o TokenizeFrom(line, at + 1, inString, inRemark)

\* the line's digits at the front are skipped, then whitespace, then the rest is tokenized
tokenizeBasicLine(line, lineNumber) ==
  TokenizeFrom(line, SkipSpaces(line, SkipDigits(line, 1)), FALSE, FALSE)

\* std::getline over the program from index from on: lines end at LF, one CR at
\* a line's end is dropped, empty lines are left out
RECURSIVE GetLines(_, _)
GetLines(program, from) ==
  IF from > Len(program) THEN <<>>
  ELSE LET ends == {k \in from..(Len(program) + 1) : k = Len(program) + 1 \/ program[k] = 10}
           end == CHOOSE k \in ends : \A j \in ends : k <= j
           raw == SubSeq(program, from, end - 1)
           line == IF raw # <<>> /\ raw[Len(raw)] = 13 THEN SubSeq(raw, 1, Len(raw) - 1) ELSE raw
       IN (IF line # <<>> THEN <<line>> ELSE <<>>) \o GetLines(program, end + 1)

\* int lineNumber read digit by digit from index at on; once lineNumber * 10 +
\* digit leaves the range of int the behaviour is undefined and lineNumber may
\* hold any int: overflowed
RECURSIVE ParseInt(_, _, _, _)
ParseInt(line, at, lineNumber, overflowed) ==
  IF at > Len(line) \/ ~isdigit(line[at]) THEN lineNumber
  ELSE LET digit == line[at] - 48
       IN IF lineNumber > (INT_MAX - digit) \div 10 THEN overflowed
          ELSE ParseInt(line, at + 1, (lineNumber * 10) + digit, overflowed)

\* what one line adds to the binary program
LineRecord(line, lineNumber) ==
  IF lineNumber = 0 THEN <<>>
  ELSE <<0, 0, (lineNumber \div 256) % 256, lineNumber % 256>>
         \o tokenizeBasicLine(line, lineNumber) \o <<0>>

\* the loop over the lines: leading whitespace is passed, then the number is read
RECURSIVE LineRecords(_, _, _)
LineRecords(lines, k, overflowed) ==
  IF k > Len(lines) THEN <<>>
  ELSE LineRecord(lines[k], ParseInt(lines[k], SkipSpaces(lines[k], 1), 0, overflowed))
         \o LineRecords(lines, k + 1, overflowed)

tokenizeBasicProgram(program, overflowed) ==
  LET binaryData == <<255, 0, 0>> \o LineRecords(GetLines(program, 1), 1, overflowed)
      totalSize == Len(binaryData) % 65536
  IN [binaryData EXCEPT ![2] = (totalSize \div 256) % 256, ![3] = totalSize % 256]

\* binaryData[pos], pos counted from 0; the byte at the string's end reads as 0
ByteAt(binaryData, pos) == IF pos < Len(binaryData) THEN binaryData[pos + 1] ELSE 0

\* commandTokens and functionTokens: the keyword between two spaces, or the byte itself
TokenText(tokens, token) ==
  LET hits == {k \in 1..Len(tokens) : tokens[k].token = token}
  IN IF hits = {} THEN <<token>>
     ELSE <<32>> \o tokens[CHOOSE k \in hits : TRUE].keyword \o <<32>>

\* the detokenizer's inner loop from pos on: the text written and where it stopped
RECURSIVE DetokenizeFrom(_, _, _)
DetokenizeFrom(binaryData, pos, inString) ==
  IF ~(pos < Len(binaryData) /\ ByteAt(binaryData, pos) # 0) THEN [text |-> <<>>, pos |-> pos]
  ELSE LET token == ByteAt(binaryData, pos)
           one == DetokenizeFrom(binaryData, pos + 1, inString)
           flip == DetokenizeFrom(binaryData, pos + 1, ~inString)
           two == DetokenizeFrom(binaryData, pos + 2, inString)
       IN IF token = 34 THEN [text |-> <<34>> \o flip.text, pos |-> flip.pos]
          ELSE IF inString THEN [text |-> <<token>> \o one.text, pos |-> one.pos]
          ELSE IF token = FUNCTION_ESCAPE
               THEN IF pos + 1 >= Len(binaryData) THEN [text |-> <<>>, pos |-> pos + 1]
                    ELSE [text |-> TokenText(basicFunctions, ByteAt(binaryData, pos + 1))
                                     \o two.text,
                          pos |-> two.pos]
          ELSE [text |-> TokenText(basicCommands, token) \o one.text, pos |-> one.pos]

\* operator<< of a 16-bit number
RECURSIVE Decimal(_)
Decimal(n) == IF n < 10 THEN <<48 + n>> ELSE Decimal(n \div 10) \o <<48 + (n % 10)>>

\* "Remove redundant spaces": a space after a space is dropped
RECURSIVE SingleSpaces(_, _)
SingleSpaces(rest, k) ==
  IF k > Len(rest) THEN <<>>
  ELSE (IF rest[k] = 32 /\ k > 1 /\ rest[k - 1] = 32 THEN <<>> ELSE <<rest[k]>>)
         \o SingleSpaces(rest, k + 1)

\* "Clean up multiple spaces": in the text after the last LF, what follows the
\* first space has its runs of spaces made single
CleanLastLine(lineStr) ==
  LET feeds == {k \in 1..Len(lineStr) : lineStr[k] = 10}
      lineStart == IF feeds = {} THEN 0 ELSE CHOOSE k \in feeds : \A j \in feeds : j <= k
      currentLine == SubSeq(lineStr, lineStart + 1, Len(lineStr))
      spaces == {k \in 1..Len(currentLine) : currentLine[k] = 32}
      firstSpace == CHOOSE k \in spaces : \A j \in spaces : k <= j
  IN IF spaces = {} THEN lineStr
     ELSE SubSeq(lineStr, 1, lineStart) \o SubSeq(currentLine, 1, firstSpace)
            \o SingleSpaces(SubSeq(currentLine, firstSpace + 1, Len(currentLine)), 1)

\* the detokenizer's outer loop from pos on, output being what is written so far
RECURSIVE DetokenizeLines(_, _, _, _)
DetokenizeLines(binaryData, size, pos, output) ==
  IF ~(pos < size /\ pos < Len(binaryData)) THEN output
  ELSE IF pos + 2 >= Len(binaryData) THEN output
  ELSE LET lineNumber == (ByteAt(binaryData, pos + 2) * 256) + ByteAt(binaryData, pos + 3)
           content == DetokenizeFrom(binaryData, pos + 4, FALSE)
           lineStr == output \o Decimal(lineNumber) \o <<32>> \o content.text
       IN DetokenizeLines(binaryData, size, content.pos + 1, CleanLastLine(lineStr) \o <<10>>)

\* the text returned for other input is "Error: Not a valid HX-20 BASIC file" and LF;
\* inputs of one byte, whose size field lies past the string's end, are not explored
detokenizeBasicProgram(binaryData) ==
  IF binaryData = <<>> \/ binaryData[1] # 255
  THEN <<69, 114, 114, 111, 114, 58, 32, 78, 111, 116, 32, 97, 32, 118, 97, 108, 105, 100, 32,
         72, 88, 45, 50, 48, 32, 66, 65, 83, 73, 67, 32, 102, 105, 108, 101, 10>>
  ELSE DetokenizeLines(binaryData, (ByteAt(binaryData, 1) * 256) + ByteAt(binaryData, 2), 3, <<>>)

\* ------------------------------------------------------------ state
VARIABLES
  DEBUG,        \* the global debug flag (main's -d)
  audioData,    \* the sample buffer, one element per addPulse call
  dump,         \* what addBlock has printed (DEBUG only)
  pc,           \* position in encodeBasicProgram
  programText,  \* encodeBasicProgram's arguments
  filename,
  filetype,
  headerData,   \* its locals
  i,
  blockNumber,
  blockData,
  footerData,
  steps,        \* history: the emission calls made so far, in order
  arg,          \* unit specifications: the arguments of the call made
  ret,          \* unit specifications: the value a pure function returned
  inFile,       \* hx20tape: the input file, whether it can be opened and its bytes
  inputText,    \* main's programText, as read
  fileType,     \* main's fileType
  normalized,   \* main's normalized
  outFile,      \* hx20tape: the output file, whether it exists and what it holds
  exitStatus    \* main's return value, -1 while it runs

mainVars == <<inFile, inputText, fileType, normalized, outFile, exitStatus>>

vars == <<DEBUG, audioData, dump, pc, programText, filename, filetype, headerData,
          i, blockNumber, blockData, footerData, steps, arg, ret,
          inFile, inputText, fileType, normalized, outFile, exitStatus>>

encVars == <<programText, filename, filetype, headerData, i, blockNumber, blockData,
             footerData, steps>>

\* no input file: nothing to open
NoFile == [exists |-> FALSE, bytes |-> <<>>]

\* no output file: nothing written
NoOutput == [exists |-> FALSE, pulses |-> <<>>, levels |-> <<>>]

\* main has not run: its locals have their initial values, no file is there
MainNotStarted ==
  /\ inFile = NoFile
  /\ inputText = <<>>
  /\ fileType = "ASCII"
  /\ normalized = <<>>
  /\ outFile = NoOutput
  /\ exitStatus = -1

\* ------------------------------------------------------------ inputs
\* program texts: lengths around every multiple of the block size, contents that
\* differ from chunk to chunk and pass through 0x00 and 0xFF
Lens == {0, 1} \cup {(k * DATA_BLOCK_SIZE) + d : k \in 1..MaxChunks, d \in {-1, 0, 1}}

Text(len, seed) == [k \in 1..len |-> (seed + (5 * k) + (7 * ((k - 1) \div DATA_BLOCK_SIZE))) % 256]

Seeds == {10, 250}

DefaultName == <<80, 82, 79, 71, 82, 65, 77, 32>>           \* "PROGRAM "

Names == {<<>>, <<84, 69, 83, 84>>, DefaultName, <<76, 79, 78, 71, 78, 65, 77, 69, 57>>}

\* readings of the local clock (struct tm)
Clocks ==
  {[tm_mon |-> 0, tm_mday |-> 1, tm_year |-> 126, tm_hour |-> 0, tm_min |-> 0, tm_sec |-> 9],
   [tm_mon |-> 11, tm_mday |-> 31, tm_year |-> 99, tm_hour |-> 23, tm_min |-> 59, tm_sec |-> 10]}

\* the calls of encodeBasicProgram explored: every name and type on the empty
\* text, every length under the default name, and a second content for the text
\* one byte longer than a block
EncodeInputs ==
  {c \in [len : Lens, seed : Seeds, name : Names, type : BasicType] :
     \/ c.len = 0 /\ c.seed = 10
     \/ c.name = DefaultName /\ c.type = "ASCII"
          /\ (c.seed = 10 \/ c.len = DATA_BLOCK_SIZE + 1)}

\* buffers a unit call may find: empty, or holding earlier pulses
PriorBuffers == {<<>>, <<PULSE_LONG, PULSE_SHORT>>}

\* addBlock's arguments in the framer specification
BlockTypes == {72, 68, 69}                                  \* 'H', 'D', 'E'

BlockNumbers == {0, 1, 255, 256, 4660, 65535}

BlockIDs == {0, 1, 255}

PayloadBytes == {0, 170, 255}

RECURSIVE SeqsUpTo(_, _)
SeqsUpTo(S, n) ==
  IF n = 0 THEN {<<>>}
  ELSE LET shorter == SeqsUpTo(S, n - 1)
       IN shorter \cup {Append(q, x) : q \in {r \in shorter : Len(r) = n - 1}, x \in S}

Payloads ==
  SeqsUpTo(PayloadBytes, MaxPayload)
    \cup {Text(DATA_BLOCK_SIZE, 10),
          [k \in 1..HEADER_SIZE |-> IF k <= 4 THEN 72 ELSE 32]}

\* the checksum's inputs: the short sequences, the known vector "123456789" and
\* one body as long as a data block's
CrcBytes == {0, 1, 49, 128, 255}

CrcInputs ==
  SeqsUpTo(CrcBytes, MaxCrcLen)
    \cup {<<49, 50, 51, 52, 53, 54, 55, 56, 57>>, Text(DATA_BLOCK_SIZE + 4, 250)}

\* ------------------------------------------------------------ program encoder
NoBytes == <<>>

Step(op, type, number, id, data, bytes, pulses) ==
  [op |-> op, type |-> type, number |-> number, id |-> id, data |-> data,
   bytes |-> bytes, from |-> Len(audioData), to |-> Len(audioData) + Len(pulses)]

\* a call of addFileGap from encodeBasicProgram
DoFileGap ==
  LET pulses == addFileGap IN
  /\ audioData' = audioData \o pulses
  /\ steps' = Append(steps, Step("addFileGap", 0, 0, 0, NoBytes, FILE_GAP_BYTES, pulses))
  /\ dump' = dump

\* a call of addInterblockGap(bytes) from encodeBasicProgram
DoInterblockGap(bytes) ==
  LET pulses == addInterblockGap(bytes) IN
  /\ audioData' = audioData \o pulses
  /\ steps' = Append(steps, Step("addInterblockGap", 0, 0, 0, NoBytes, bytes, pulses))
  /\ dump' = dump

\* a call of addBlock from encodeBasicProgram
DoBlock(blockType, number, blockID, data) ==
  LET pulses == addBlock(blockType, number, blockID, data) IN
  /\ audioData' = audioData \o pulses
  /\ steps' = Append(steps, Step("addBlock", blockType, number, blockID, data,
                                 BLOCK_GAP_BYTES, pulses))
  /\ dump' = dump \o BlockDump(DEBUG, blockType, number, blockID, data)

\* Chunk filled with spaces, as the metadata records are, instead of zeros
ChunkSpaceFilled(programBytes, at) ==
  LET rest == Len(programBytes) - at
      copySize == IF DATA_BLOCK_SIZE < rest THEN DATA_BLOCK_SIZE ELSE rest
  IN [k \in 1..DATA_BLOCK_SIZE |-> IF k <= copySize THEN programBytes[at + k] ELSE 32]

\* the 256-byte block cut at offset at (0-based), zero-filled after the text's end
Chunk(programBytes, at) ==
  LET rest == Len(programBytes) - at
      copySize == IF DATA_BLOCK_SIZE < rest THEN DATA_BLOCK_SIZE ELSE rest
  IN [k \in 1..DATA_BLOCK_SIZE |-> IF k <= copySize THEN programBytes[at + k] ELSE 0]

\* entry and line 407: the leading file gap
EncodeStart ==
  /\ pc = "idle"
  /\ \E c \in EncodeInputs :
       /\ programText' = Text(c.len, c.seed)
       /\ filename' = c.name
       /\ filetype' = c.type
  /\ DoFileGap
  /\ pc' = "header0"
  /\ UNCHANGED <<DEBUG, headerData, i, blockNumber, blockData, footerData, arg, ret>>
  /\ UNCHANGED mainVars

\* lines 410-411: the header record is built and written, first copy
HeaderCopy0 ==
  /\ pc = "header0"
  /\ \E t \in Clocks :
       /\ headerData' = createHeaderData(filename, filetype, t)
       /\ DoBlock(72, 0, 0, headerData')
  /\ pc' = "header1"
  /\ UNCHANGED <<DEBUG, programText, filename, filetype, i, blockNumber, blockData,
                 footerData, arg, ret>>
  /\ UNCHANGED mainVars

\* line 412
HeaderCopy1 ==
  /\ pc = "header1"
  /\ DoBlock(72, 0, 1, headerData)
  /\ pc' = "headerGap"
  /\ UNCHANGED <<DEBUG, programText, filename, filetype, headerData, i, blockNumber,
                 blockData, footerData, arg, ret>>
  /\ UNCHANGED mainVars

\* lines 413-419: the gap after the header, then the loop is entered
HeaderGap ==
  /\ pc = "headerGap"
  /\ DoInterblockGap(HEADER_GAP_BYTES)
  /\ blockNumber' = 1
  /\ i' = 0
  /\ pc' = "loop"
  /\ UNCHANGED <<DEBUG, programText, filename, filetype, headerData, blockData,
                 footerData, arg, ret>>
  /\ UNCHANGED mainVars

\* lines 419-432: the loop test holds, the chunk is cut and written, first copy
DataCopy0 ==
  /\ pc = "loop"
  /\ i < Len(programText)
  /\ blockData' = Chunk(programText, i)
  /\ DoBlock(68, blockNumber, 0, blockData')
  /\ pc' = "data1"
  /\ UNCHANGED <<DEBUG, programText, filename, filetype, headerData, i, blockNumber,
                 footerData, arg, ret>>
  /\ UNCHANGED mainVars

\* DataCopy1 with the second write left out
DataCopy1Skipped ==
  /\ pc = "data1"
  /\ pc' = "dataGap"
  /\ UNCHANGED <<DEBUG, audioData, dump, steps, programText, filename, filetype,
                 headerData, i, blockNumber, blockData, footerData, arg, ret>>
  /\ UNCHANGED mainVars

\* line 433
DataCopy1 ==
  /\ pc = "data1"
  /\ DoBlock(68, blockNumber, 1, blockData)
  /\ pc' = "dataGap"
  /\ UNCHANGED <<DEBUG, programText, filename, filetype, headerData, i, blockNumber,
                 blockData, footerData, arg, ret>>
  /\ UNCHANGED mainVars

\* DataGap with the block number left as it is
DataGapSameNumber ==
  /\ pc = "dataGap"
  /\ DoInterblockGap(DATA_GAP_BYTES)
  /\ blockNumber' = blockNumber
  /\ i' = i + DATA_BLOCK_SIZE
  /\ pc' = "loop"
  /\ UNCHANGED <<DEBUG, programText, filename, filetype, headerData, blockData,
                 footerData, arg, ret>>
  /\ UNCHANGED mainVars

\* DataGap with the header's gap length in place of the data gap's
DataGapShort ==
  /\ pc = "dataGap"
  /\ DoInterblockGap(HEADER_GAP_BYTES)
  /\ blockNumber' = blockNumber + 1
  /\ i' = i + DATA_BLOCK_SIZE
  /\ pc' = "loop"
  /\ UNCHANGED <<DEBUG, programText, filename, filetype, headerData, blockData,
                 footerData, arg, ret>>
  /\ UNCHANGED mainVars

\* lines 434-436 and the loop's increment
DataGap ==
  /\ pc = "dataGap"
  /\ DoInterblockGap(DATA_GAP_BYTES)
  /\ blockNumber' = blockNumber + 1
  /\ i' = i + DATA_BLOCK_SIZE
  /\ pc' = "loop"
  /\ UNCHANGED <<DEBUG, programText, filename, filetype, headerData, blockData,
                 footerData, arg, ret>>
  /\ UNCHANGED mainVars

\* lines 419, 444-445: the loop test fails, the footer record is built and written
FooterCopy0 ==
  /\ pc = "loop"
  /\ ~(i < Len(programText))
  /\ \E t \in Clocks :
       /\ footerData' = createFooterData(filename, filetype, t)
       /\ DoBlock(69, blockNumber, 0, footerData')
  /\ pc' = "footer1"
  /\ UNCHANGED <<DEBUG, programText, filename, filetype, headerData, i, blockNumber,
                 blockData, arg, ret>>
  /\ UNCHANGED mainVars

\* line 446
FooterCopy1 ==
  /\ pc = "footer1"
  /\ DoBlock(69, blockNumber, 1, footerData)
  /\ pc' = "trailGap"
  /\ UNCHANGED <<DEBUG, programText, filename, filetype, headerData, i, blockNumber,
                 blockData, footerData, arg, ret>>
  /\ UNCHANGED mainVars

\* line 449: the trailing file gap, and the call returns
EncodeEnd ==
  /\ pc = "trailGap"
  /\ DoFileGap
  /\ pc' = "done"
  /\ UNCHANGED <<DEBUG, programText, filename, filetype, headerData, i, blockNumber,
                 blockData, footerData, arg, ret>>
  /\ UNCHANGED mainVars

Init ==
  /\ DEBUG \in BOOLEAN
  /\ audioData = <<>>
  /\ dump = <<>>
  /\ pc = "idle"
  /\ programText = <<>>
  /\ filename = <<>>
  /\ filetype = "ASCII"
  /\ headerData = <<>>
  /\ i = 0
  /\ blockNumber = 0
  /\ blockData = <<>>
  /\ footerData = <<>>
  /\ steps = <<>>
  /\ arg = <<>>
  /\ ret = -1
  /\ MainNotStarted

Next ==
  \/ EncodeStart
  \/ HeaderCopy0
  \/ HeaderCopy1
  \/ HeaderGap
  \/ DataCopy0
  \/ DataCopy1
  \/ DataGap
  \/ FooterCopy0
  \/ FooterCopy1
  \/ EncodeEnd

Spec == Init /\ [][Next]_vars

\* ------------------------------------------------------------ unit specifications
\* the state a unit call starts from: Init with the given position
UnitInit(at) ==
  /\ DEBUG \in BOOLEAN
  /\ dump = <<>>
  /\ pc = at
  /\ programText = <<>>
  /\ filename = <<>>
  /\ filetype = "ASCII"
  /\ headerData = <<>>
  /\ i = 0
  /\ blockNumber = 0
  /\ blockData = <<>>
  /\ footerData = <<>>
  /\ steps = <<>>
  /\ MainNotStarted

\* calculateCRC_Kermit applied to one input
InitCRC == UnitInit("crc") /\ DEBUG = FALSE /\ audioData = <<>> /\ arg \in CrcInputs /\ ret = -1

CrcCall ==
  /\ pc = "crc"
  /\ ret' = calculateCRC_Kermit(arg)
  /\ pc' = "crcDone"
  /\ UNCHANGED <<DEBUG, audioData, dump, arg>>
  /\ UNCHANGED encVars
  /\ UNCHANGED mainVars

SpecCRC == InitCRC /\ [][CrcCall]_vars

\* addBit and addByte applied once to a buffer
InitByte ==
  UnitInit("pulse") /\ DEBUG = FALSE /\ audioData \in PriorBuffers /\ arg = <<>> /\ ret = -1

AddBitCall ==
  /\ pc = "pulse"
  /\ \E bit \in {0, 1} :
       /\ audioData' = audioData \o addBit(bit)
       /\ arg' = [op |-> "addBit", value |-> bit, from |-> Len(audioData)]
  /\ pc' = "pulseDone"
  /\ UNCHANGED <<DEBUG, dump, ret>>
  /\ UNCHANGED encVars
  /\ UNCHANGED mainVars

AddByteCall ==
  /\ pc = "pulse"
  /\ \E byte \in 0..255 :
       /\ audioData' = audioData \o addByte(byte)
       /\ arg' = [op |-> "addByte", value |-> byte, from |-> Len(audioData)]
  /\ pc' = "pulseDone"
  /\ UNCHANGED <<DEBUG, dump, ret>>
  /\ UNCHANGED encVars
  /\ UNCHANGED mainVars

NextByte == AddBitCall \/ AddByteCall

SpecByte == InitByte /\ [][NextByte]_vars

\* addBlock applied once to a buffer
InitBlock == UnitInit("block") /\ audioData \in PriorBuffers /\ arg = <<>> /\ ret = -1

AddBlockCall ==
  /\ pc = "block"
  /\ \E blockType \in BlockTypes, number \in BlockNumbers, blockID \in BlockIDs,
        data \in Payloads :
       /\ audioData' = audioData \o addBlock(blockType, number, blockID, data)
       /\ dump' = dump \o BlockDump(DEBUG, blockType, number, blockID, data)
       /\ arg' = [blockType |-> blockType, blockNumber |-> number, blockID |-> blockID,
                  data |-> data, from |-> Len(audioData)]
  /\ pc' = "blockDone"
  /\ UNCHANGED <<DEBUG, ret>>
  /\ UNCHANGED encVars
  /\ UNCHANGED mainVars

SpecBlock == InitBlock /\ [][AddBlockCall]_vars

\* createHeaderData and createFooterData applied to one filename, type and clock
\* reading; the names include one longer than the field, lower case and the
\* bytes 0x00 and 0xFF
MetaNames == Names \cup {<<97, 0, 255>>, <<72, 88, 50, 48, 32, 66, 65, 83>>}

MetaInputs == [filename : MetaNames, type : BasicType, t : Clocks]

InitMeta == UnitInit("meta") /\ DEBUG = FALSE /\ audioData = <<>> /\ arg \in MetaInputs /\ ret = -1

HeaderCall ==
  /\ pc = "meta"
  /\ ret' = createHeaderData(arg.filename, arg.type, arg.t)
  /\ pc' = "headerDone"
  /\ UNCHANGED <<DEBUG, audioData, dump, arg>>
  /\ UNCHANGED encVars
  /\ UNCHANGED mainVars

FooterCall ==
  /\ pc = "meta"
  /\ ret' = createFooterData(arg.filename, arg.type, arg.t)
  /\ pc' = "footerDone"
  /\ UNCHANGED <<DEBUG, audioData, dump, arg>>
  /\ UNCHANGED encVars
  /\ UNCHANGED mainVars

NextMeta == HeaderCall \/ FooterCall

SpecMeta == InitMeta /\ [][NextMeta]_vars

\* normalizeAudio applied once and once more to a buffer of samples (in this
\* specification audioData is kept sample by sample): short buffers over
\* values at and between the rails, the ramp of all 256 values, and the samples
\* of an encoded byte and of an encoded sync field and preamble
MaxSamples == 3

SampleBytes == {0, 33, 73, 128, 129, 190, 223, 255}

Ramp == [k \in 1..256 |-> k - 1]

EncodedSamples == {SamplesOf(addByte(170)), SamplesOf(addSyncField \o addPreamble)}

NormBuffers == SeqsUpTo(SampleBytes, MaxSamples) \cup {Ramp} \cup EncodedSamples

\* saveToWAV's levels: main's default 95, two below it, 1, and one that clamps
Targets == {1, 73, 75, 95, 200}

InitNorm ==
  UnitInit("norm") /\ DEBUG = FALSE /\ audioData \in NormBuffers /\ arg = <<>> /\ ret = -1

NormalizeCall ==
  /\ pc = "norm"
  /\ \E targetAmplitude \in Targets :
       /\ audioData' = normalizeAudio(audioData, targetAmplitude)
       /\ arg' = [targetAmplitude |-> targetAmplitude, before |-> audioData, earlier |-> 0]
  /\ pc' = "normDone"
  /\ UNCHANGED <<DEBUG, dump, ret>>
  /\ UNCHANGED encVars
  /\ UNCHANGED mainVars

\* a second call, with the same target or another
NormalizeAgain ==
  /\ pc = "normDone"
  /\ \E targetAmplitude \in Targets :
       /\ audioData' = normalizeAudio(audioData, targetAmplitude)
       /\ arg' = [targetAmplitude |-> targetAmplitude, before |-> audioData,
                  earlier |-> arg.targetAmplitude]
  /\ pc' = "normTwice"
  /\ UNCHANGED <<DEBUG, dump, ret>>
  /\ UNCHANGED encVars
  /\ UNCHANGED mainVars

NextNorm == NormalizeCall \/ NormalizeAgain

SpecNorm == InitNorm /\ [][NextNorm]_vars

\* ---- hx20tape's main: read, pick the type, normalize the line endings, encode, save
MaxText == 3

CR == 13

LF == 10

normalizeLevel == 95

\* input files: unreadable, or any short text of CR, LF, a letter and 0xFF
InputFiles ==
  {NoFile} \cup {[exists |-> TRUE, bytes |-> t] : t \in SeqsUpTo({CR, LF, 65, 255}, MaxText)}

\* the loop keeps a lone CR as it is
CrlfPieceKeepsCR(text, k) ==
  IF text[k] = LF /\ (k = 1 \/ text[k - 1] # CR) THEN <<CR, LF>> ELSE <<text[k]>>

\* what the normalization loop appends at index k (1-based) of text
CrlfPiece(text, k) ==
  IF text[k] = LF /\ (k = 1 \/ text[k - 1] # CR) THEN <<CR, LF>>
  ELSE IF text[k] # CR \/ (k + 1 <= Len(text) /\ text[k + 1] = LF) THEN <<text[k]>>
  ELSE <<>>

RECURSIVE CrlfLoop(_, _)
CrlfLoop(text, k) ==
  IF k > Len(text) THEN <<>> ELSE CrlfPiece(text, k) \o CrlfLoop(text, k + 1)

\* main's "Ensure CRLF line endings"
NormalizeLineEndings(text) == CrlfLoop(text, 1)

InitMain ==
  /\ DEBUG = FALSE
  /\ audioData = <<>>
  /\ dump = <<>>
  /\ pc = "mainOpen"
  /\ programText = <<>>
  /\ filename = <<>>
  /\ filetype = "ASCII"
  /\ headerData = <<>>
  /\ i = 0
  /\ blockNumber = 0
  /\ blockData = <<>>
  /\ footerData = <<>>
  /\ steps = <<>>
  /\ arg = <<>>
  /\ ret = -1
  /\ inFile \in InputFiles
  /\ inputText = <<>>
  /\ fileType = "ASCII"
  /\ normalized = <<>>
  /\ outFile = NoOutput
  /\ exitStatus = -1

\* the input file cannot be opened
MainOpenFails ==
  /\ pc = "mainOpen"
  /\ ~inFile.exists
  /\ exitStatus' = 1
  /\ pc' = "exit"
  /\ UNCHANGED <<DEBUG, audioData, dump, arg, ret, inFile, inputText, fileType, normalized,
                 outFile>>
  /\ UNCHANGED encVars

\* the file stays ASCII whatever its first byte is
MainReadAscii ==
  /\ pc = "mainOpen"
  /\ inFile.exists
  /\ inputText' = inFile.bytes
  /\ pc' = "mainCheck"
  /\ UNCHANGED <<DEBUG, audioData, dump, arg, ret, inFile, fileType, normalized, outFile,
                 exitStatus>>
  /\ UNCHANGED encVars

\* the file is read whole and the type picked from its first byte
MainRead ==
  /\ pc = "mainOpen"
  /\ inFile.exists
  /\ inputText' = inFile.bytes
  /\ fileType' = IF inFile.bytes # <<>> /\ inFile.bytes[1] = 255 THEN "TOKEN" ELSE fileType
  /\ pc' = "mainCheck"
  /\ UNCHANGED <<DEBUG, audioData, dump, arg, ret, inFile, normalized, outFile, exitStatus>>
  /\ UNCHANGED encVars

\* the text read is empty
MainEmpty ==
  /\ pc = "mainCheck"
  /\ inputText = <<>>
  /\ exitStatus' = 1
  /\ pc' = "exit"
  /\ UNCHANGED <<DEBUG, audioData, dump, arg, ret, inFile, inputText, fileType, normalized,
                 outFile>>
  /\ UNCHANGED encVars

\* the line endings are normalized
MainNormalize ==
  /\ pc = "mainCheck"
  /\ inputText # <<>>
  /\ normalized' = NormalizeLineEndings(inputText)
  /\ pc' = "mainEncode"
  /\ UNCHANGED <<DEBUG, audioData, dump, arg, ret, inFile, inputText, fileType, outFile,
                 exitStatus>>
  /\ UNCHANGED encVars

\* a fresh encoder is given the normalized text: encodeBasicProgram's entry
MainEncode ==
  /\ pc = "mainEncode"
  /\ programText' = normalized
  /\ filename' = DefaultName
  /\ filetype' = fileType
  /\ DoFileGap
  /\ pc' = "header0"
  /\ UNCHANGED <<DEBUG, headerData, i, blockNumber, blockData, footerData, arg, ret>>
  /\ UNCHANGED mainVars

\* saveToWAV: the buffer is normalized, then written if the file can be created
MainSave ==
  /\ pc = "done"
  /\ \E created \in BOOLEAN :
       LET first == normalizeAudio(SamplesOf(SubSeq(audioData, 1, 1)), normalizeLevel)
       IN /\ outFile' = IF created
                           THEN [exists |-> TRUE, pulses |-> audioData,
                                 levels |-> <<SeqMin(first), SeqMax(first)>>]
                           ELSE outFile
          /\ exitStatus' = IF created THEN 0 ELSE 1
  /\ pc' = "exit"
  /\ UNCHANGED <<DEBUG, audioData, dump, arg, ret, inFile, inputText, fileType, normalized>>
  /\ UNCHANGED encVars

NextMain ==
  \/ MainOpenFails
  \/ MainRead
  \/ MainEmpty
  \/ MainNormalize
  \/ MainEncode
  \/ HeaderCopy0
  \/ HeaderCopy1
  \/ HeaderGap
  \/ DataCopy0
  \/ DataCopy1
  \/ DataGap
  \/ FooterCopy0
  \/ FooterCopy1
  \/ EncodeEnd
  \/ MainSave

SpecMain == InitMain /\ [][NextMain]_vars

\* ---- one encoder used for several programs: encodeBasicProgram again, reset
MaxCalls == 2

\* the programs encoded: a one-byte ASCII text and an empty tokenized one
ReuseInputs ==
  {[len |-> 1, seed |-> 10, name |-> DefaultName, type |-> "ASCII"],
   [len |-> 0, seed |-> 10, name |-> <<84, 69, 83, 84>>, type |-> "TOKEN"]}

\* what a call was given and what the clock read: the records hold the timestamp
CallKey == <<programText, filename, filetype, headerData, footerData>>

\* the call that has just returned, if it began on an empty buffer
FinishedFresh ==
  IF pc = "done" /\ arg.entry = <<>>
  THEN {[key |-> CallKey, output |-> audioData]}
  ELSE {}

\* arg keeps the caller's view: the number of calls made, the buffer as the
\* current call found it, and the calls that began on an empty buffer
InitReuse ==
  /\ UnitInit("idle")
  /\ DEBUG = FALSE
  /\ audioData = <<>>
  /\ arg = [calls |-> 0, entry |-> <<>>, fresh |-> {}]
  /\ ret = -1

\* encodeBasicProgram's entry on an encoder that may have been used before
ReuseStart ==
  /\ pc \in {"idle", "done"}
  /\ arg.calls < MaxCalls
  /\ \E c \in ReuseInputs :
       /\ programText' = Text(c.len, c.seed)
       /\ filename' = c.name
       /\ filetype' = c.type
  /\ DoFileGap
  /\ pc' = "header0"
  /\ arg' = [calls |-> arg.calls + 1, entry |-> audioData,
             fresh |-> arg.fresh \cup FinishedFresh]
  /\ UNCHANGED <<DEBUG, headerData, i, blockNumber, blockData, footerData, ret>>
  /\ UNCHANGED mainVars

\* a reset that leaves the buffer as it is
ResetKeepsBuffer ==
  /\ pc = "done"
  /\ arg.calls < MaxCalls
  /\ pc' = "idle"
  /\ arg' = [arg EXCEPT !.entry = <<>>, !.fresh = arg.fresh \cup FinishedFresh]
  /\ UNCHANGED <<DEBUG, audioData, dump, steps, programText, filename, filetype, headerData,
                 i, blockNumber, blockData, footerData, ret>>
  /\ UNCHANGED mainVars

\* reset, called between two programs
Reset ==
  /\ pc = "done"
  /\ arg.calls < MaxCalls
  /\ audioData' = <<>>
  /\ pc' = "idle"
  /\ arg' = [arg EXCEPT !.entry = <<>>, !.fresh = arg.fresh \cup FinishedFresh]
  /\ UNCHANGED <<DEBUG, dump, steps, programText, filename, filetype, headerData,
                 i, blockNumber, blockData, footerData, ret>>
  /\ UNCHANGED mainVars

NextReuse ==
  \/ ReuseStart
  \/ HeaderCopy0
  \/ HeaderCopy1
  \/ HeaderGap
  \/ DataCopy0
  \/ DataCopy1
  \/ DataGap
  \/ FooterCopy0
  \/ FooterCopy1
  \/ EncodeEnd
  \/ Reset

SpecReuse == InitReuse /\ [][NextReuse]_vars

\* ---- hx20tokenizer's main: read, choose the direction, convert, write
MaxTokLines == 2

\* program lines: with quotes, keywords inside words, line numbers beyond 16
\* bits and beyond int, whitespace before the number, number 0, no number
TokLineTexts ==
  {<<49, 48, 32, 80, 82, 73, 78, 84, 32, 34, 72, 73, 34>>,    \* 10 PRINT "HI"
   <<50, 48, 32, 71, 79, 84, 79, 32, 49, 48>>,    \* 20 GOTO 10
   <<54, 53, 53, 51, 54, 32, 65>>,    \* 65536 A
   <<52, 50, 57, 52, 57, 54, 55, 50, 57, 54, 32, 65>>,    \* 4294967296 A
   <<32, 32, 49, 48, 32, 80, 82, 73, 78, 84>>,    \*   10 PRINT
   <<48, 32, 65>>,    \* 0 A
   <<82, 69, 77>>,    \* REM
   <<49, 48, 120, 61, 115, 105, 110, 40, 49, 41, 116, 111>>}    \* 10x=sin(1)to

RECURSIVE JoinLines(_, _, _)
JoinLines(lines, k, end) ==
  IF k > Len(lines) THEN <<>> ELSE lines[k] \o end \o JoinLines(lines, k + 1, end)

\* each line is followed by the same line end: LF, CR LF, or CR CR LF
TokPrograms ==
  {JoinLines(ls, 1, e) : ls \in SeqsUpTo(TokLineTexts, MaxTokLines),
                         e \in {<<LF>>, <<CR, LF>>, <<CR, CR, LF>>}}

\* the files read: none, a program, or a tokenized file written by hand (no line;
\* a line with a string and a function)
TokFiles ==
  {NoFile} \cup
  {[exists |-> TRUE, bytes |-> t] :
     t \in TokPrograms \cup
           {<<255, 0, 3>>,
            <<255, 0, 21, 0, 0, 0, 10, 162, 32, 34, 97, 32, 32, 98, 34, 32, 32, 255, 137, 0>>}}

\* values lineNumber may hold after signed overflow
OverflowOutcomes == {-INT_MAX - 1, -1, 0, 1, 65536, INT_MAX}

\* "Determine operation based on first byte", in hx20tokenizer and in hx20tape
isTokenized(data) == data # <<>> /\ data[1] = 255

\* arg.fedBack: the input file is the output of an earlier run
InitTok ==
  /\ DEBUG = FALSE
  /\ audioData = <<>>
  /\ dump = <<>>
  /\ pc = "tokOpen"
  /\ programText = <<>>
  /\ filename = <<>>
  /\ filetype = "ASCII"
  /\ headerData = <<>>
  /\ i = 0
  /\ blockNumber = 0
  /\ blockData = <<>>
  /\ footerData = <<>>
  /\ steps = <<>>
  /\ arg = [fedBack |-> FALSE]
  /\ ret = <<>>
  /\ inFile \in TokFiles
  /\ inputText = <<>>
  /\ fileType = "ASCII"
  /\ normalized = <<>>
  /\ outFile = NoFile
  /\ exitStatus = -1

\* the input file cannot be opened
TokOpenFails ==
  /\ pc = "tokOpen"
  /\ ~inFile.exists
  /\ exitStatus' = 1
  /\ pc' = "exit"
  /\ UNCHANGED <<DEBUG, audioData, dump, arg, ret, inFile, inputText, fileType, normalized,
                 outFile>>
  /\ UNCHANGED encVars

\* the file is read whole and the direction chosen from its first byte
TokRead ==
  /\ pc = "tokOpen"
  /\ inFile.exists
  /\ inputText' = inFile.bytes
  /\ pc' = IF isTokenized(inFile.bytes) THEN "detokenize" ELSE "tokenize"
  /\ UNCHANGED <<DEBUG, audioData, dump, arg, ret, inFile, fileType, normalized, outFile,
                 exitStatus>>
  /\ UNCHANGED encVars

TokDetokenize ==
  /\ pc = "detokenize"
  /\ ret' = detokenizeBasicProgram(inputText)
  /\ pc' = "detokenized"
  /\ UNCHANGED <<DEBUG, audioData, dump, arg>>
  /\ UNCHANGED encVars
  /\ UNCHANGED mainVars

TokTokenize ==
  /\ pc = "tokenize"
  /\ \E overflowed \in OverflowOutcomes : ret' = tokenizeBasicProgram(inputText, overflowed)
  /\ pc' = "tokenized"
  /\ UNCHANGED <<DEBUG, audioData, dump, arg>>
  /\ UNCHANGED encVars
  /\ UNCHANGED mainVars

\* the output is written if the file can be created
TokWrite ==
  /\ pc \in {"detokenized", "tokenized"}
  /\ \E created \in BOOLEAN :
       /\ outFile' = IF created THEN [exists |-> TRUE, bytes |-> ret] ELSE outFile
       /\ exitStatus' = IF created THEN 0 ELSE 1
  /\ pc' = IF pc = "tokenized" THEN "exitTokenized" ELSE "exit"
  /\ UNCHANGED <<DEBUG, audioData, dump, arg, ret, inFile, inputText, fileType, normalized>>
  /\ UNCHANGED encVars

\* the tokenizer's output becomes the input of a run of hx20tokenizer or of hx20tape
TokFeedBack ==
  /\ pc = "exitTokenized"
  /\ exitStatus = 0
  /\ ~arg.fedBack
  /\ inFile' = outFile
  /\ outFile' = NoFile
  /\ inputText' = <<>>
  /\ exitStatus' = -1
  /\ arg' = [fedBack |-> TRUE]
  /\ pc' \in {"tokOpen", "mainOpen"}
  /\ UNCHANGED <<DEBUG, audioData, dump, ret, fileType, normalized>>
  /\ UNCHANGED encVars

NextTok ==
  \/ TokOpenFails
  \/ TokRead
  \/ TokDetokenize
  \/ TokTokenize
  \/ TokWrite
  \/ TokFeedBack
  \/ MainRead

SpecTok == InitTok /\ [][NextTok]_vars

\* ---- addPulse applied to a sample buffer (here audioData is kept sample by
\* sample): the pulses of the two bits and durations around them, after
\* buffers of several lengths and contents, up to MaxPulses calls in a row
MaxPulses == 2

InitPulse ==
  /\ UnitInit("addPulse")
  /\ DEBUG = FALSE
  /\ audioData \in {<<>>, <<128, 129>>, <<0, 255, 7>>}
  /\ arg = [calls |-> 0, durationUs |-> 0, before |-> <<>>]
  /\ ret = -1

AddPulseCall ==
  /\ pc = "addPulse"
  /\ arg.calls < MaxPulses
  /\ \E durationUs \in {181, 182, 363, 1000, 2000} \cup {addBit(bit)[1] : bit \in {0, 1}} :
       /\ audioData' = audioData \o PulseSamples(durationUs)
       /\ arg' = [calls |-> arg.calls + 1, durationUs |-> durationUs, before |-> audioData]
  /\ UNCHANGED <<DEBUG, dump, pc, ret>>
  /\ UNCHANGED encVars
  /\ UNCHANGED mainVars

SpecPulse == InitPulse /\ [][AddPulseCall]_vars

\* ------------------------------------------------------------ reading the buffer
\* the bit a receiver reads from a pulse (threshold 750 us)
BitOf(d) == IF d > 750 THEN 1 ELSE 0

\* the byte carried by the 9 pulses buf[p+1..p+9]
FrameByteAt(buf, p) ==
  BitOf(buf[p + 1]) + (2 * BitOf(buf[p + 2])) + (4 * BitOf(buf[p + 3]))
    + (8 * BitOf(buf[p + 4])) + (16 * BitOf(buf[p + 5])) + (32 * BitOf(buf[p + 6]))
    + (64 * BitOf(buf[p + 7])) + (128 * BitOf(buf[p + 8]))

\* buf[from+1..to] is a whole number of 0xFF frames, n of them: 9n long pulses
IsGap(buf, from, to, n) ==
  /\ to - from = 9 * n
  /\ \A k \in (from + 1)..to : buf[k] = PULSE_LONG

\* the addBlock calls among the steps, in order
Blocks == SelectSeq(steps, LAMBDA s : s.op = "addBlock")

\* ceil(len / 256)
NumChunks(len) == (len + (DATA_BLOCK_SIZE - 1)) \div DATA_BLOCK_SIZE

\* ------------------------------------------------------------ claims
\* the k-th emission step of a call whose text has n chunks: operation, block
\* type, copy index, gap length in frames
ExpectedStep(k, n) ==
  CASE k = 1 -> <<"addFileGap", 0, 0, FILE_GAP_BYTES>>
    [] k = 2 -> <<"addBlock", 72, 0, BLOCK_GAP_BYTES>>
    [] k = 3 -> <<"addBlock", 72, 1, BLOCK_GAP_BYTES>>
    [] k = 4 -> <<"addInterblockGap", 0, 0, 100>>
    [] k \in 5..(4 + (3 * n)) ->
         (CASE (k - 5) % 3 = 0 -> <<"addBlock", 68, 0, BLOCK_GAP_BYTES>>
            [] (k - 5) % 3 = 1 -> <<"addBlock", 68, 1, BLOCK_GAP_BYTES>>
            [] OTHER -> <<"addInterblockGap", 0, 0, 300>>)
    [] k = 5 + (3 * n) -> <<"addBlock", 69, 0, BLOCK_GAP_BYTES>>
    [] k = 6 + (3 * n) -> <<"addBlock", 69, 1, BLOCK_GAP_BYTES>>
    [] k = 7 + (3 * n) -> <<"addFileGap", 0, 0, FILE_GAP_BYTES>>
    [] OTHER -> <<"none", 0, 0, 0>>

\* C1: one encodeBasicProgram call performs its emission steps in exactly the
\* order file gap (614 frames of 0xFF), header copy 0, header copy 1, gap of 100
\* frames, then per chunk [data copy 0, data copy 1, gap of 300 frames], footer
\* copy 0, footer copy 1, file gap, and then it is done: at every moment the
\* steps made are a prefix of that sequence, each step starts in the buffer
\* where the one before it ended, the step just made, when a gap, is that many
\* 0xFF frames, and the call is done exactly when the whole sequence was made.
C1_EmissionOrder ==
  LET n == NumChunks(Len(programText))
      made == Len(steps)
  IN /\ made <= 7 + (3 * n)
     /\ \A k \in 1..made :
          /\ <<steps[k].op, steps[k].type, steps[k].id, steps[k].bytes>> = ExpectedStep(k, n)
          /\ steps[k].from = (IF k = 1 THEN 0 ELSE steps[k - 1].to)
          /\ steps[k].from < steps[k].to
     /\ Len(audioData) = (IF made = 0 THEN 0 ELSE steps[made].to)
     /\ made > 0 /\ steps[made].op # "addBlock"
          => IsGap(audioData, steps[made].from, steps[made].to, steps[made].bytes)
     /\ (pc = "done") <=> (made = 7 + (3 * n))
     /\ (pc = "idle") <=> (made = 0)

\* a finished call on a text of three chunks: 16 steps
C1_Witness == pc = "done" /\ Len(programText) > 2 * DATA_BLOCK_SIZE /\ Len(steps) = 16

\* the pulses before the first frame of a block: sync field and preamble
LEAD_PULSES == SYNC_BITS + 19

\* the n bytes a block step transmits after its preamble, read from the buffer
Transmitted(s, n) == [k \in 1..n |-> FrameByteAt(audioData, s.from + LEAD_PULSES + (9 * (k - 1)))]

\* the length of a block step's frame: prefix, payload, checksum
FrameLen(s) == 4 + Len(s.data) + 2

\* steps k and k+1 are the two writes of one logical block
Twin(a, b) ==
  /\ a.op = "addBlock" /\ b.op = "addBlock"
  /\ a.id = 0 /\ b.id = 1
  /\ a.type = b.type /\ a.number = b.number /\ a.data = b.data

\* C2: double write. Among the steps of one call every block write has copy
\* index 0 or 1; a copy-1 write has its copy-0 twin (same type, sequence number
\* and payload) directly before it; a copy-0 write that is not the latest step
\* has its copy-1 twin directly after it; no two writes other than twins share
\* type and sequence number; and a finished call has written header, every
\* chunk and footer, each exactly twice.
C2_DoubleWrite ==
  LET made == Len(steps)
      isBlock(k) == steps[k].op = "addBlock"
  IN /\ \A k \in 1..made : isBlock(k) =>
          /\ steps[k].id \in {0, 1}
          /\ steps[k].id = 1 => k > 1 /\ Twin(steps[k - 1], steps[k])
          /\ steps[k].id = 0 /\ k < made => Twin(steps[k], steps[k + 1])
     /\ \A k \in 1..made : \A m \in (k + 1)..made :
          isBlock(k) /\ isBlock(m) /\ steps[k].type = steps[m].type
            /\ steps[k].number = steps[m].number
          => m = k + 1
     /\ pc = "done" =>
          /\ Len(Blocks) = 2 * (NumChunks(Len(programText)) + 2)
          /\ Blocks[Len(Blocks)].id = 1

\* a finished call that wrote two data chunks, each twice
C2_Witness ==
  /\ pc = "done"
  /\ Len(Blocks) = 8
  /\ Twin(Blocks[3], Blocks[4]) /\ Twin(Blocks[5], Blocks[6])

\* the latest two steps are the two writes of one logical block
PairJustWritten ==
  /\ Len(steps) >= 2
  /\ Twin(steps[Len(steps) - 1], steps[Len(steps)])

\* C3 as claimed: the bytes transmitted for the two copies of a block, checksum
\* included, are equal at every position but offset 3. (Every pair of copies is
\* the pair just written in some state.)
C3_Original ==
  PairJustWritten =>
    LET a == steps[Len(steps) - 1]
        b == steps[Len(steps)]
        n == FrameLen(a)
        fa == Transmitted(a, n)
        fb == Transmitted(b, n)
    IN \A p \in 1..n : p # 4 => fa[p] = fb[p]

\* C3, amended: the bytes transmitted for the two copies of a block are equal at
\* every position of the frame body but offset 3, which is 0 in the first copy
\* and 1 in the second; the two checksum bytes that follow are each copy's own
\* Kermit checksum, low byte first, and are not the same in the two copies.
C3_CopiesDifferInIndexAndChecksum ==
  PairJustWritten =>
    LET a == steps[Len(steps) - 1]
        b == steps[Len(steps)]
        n == FrameLen(a)
        fa == Transmitted(a, n)
        fb == Transmitted(b, n)
        ka == calculateCRC_Kermit(SubSeq(fa, 1, n - 2))
        kb == calculateCRC_Kermit(SubSeq(fb, 1, n - 2))
    IN /\ FrameLen(b) = n
       /\ \A p \in 1..(n - 2) : p # 4 => fa[p] = fb[p]
       /\ fa[4] = 0 /\ fb[4] = 1
       /\ <<fa[n - 1], fa[n]>> = <<ka % 256, ka \div 256>>
       /\ <<fb[n - 1], fb[n]>> = <<kb % 256, kb \div 256>>
       /\ <<fa[n - 1], fa[n]>> # <<fb[n - 1], fb[n]>>

\* both copies of a data chunk were just written
C3_Witness == PairJustWritten /\ pc = "dataGap" /\ blockNumber = 2

\* C4: a text of L bytes is written as ceil(L/256) logical data blocks (none for
\* L = 0); every data payload is 256 bytes; byte j of the k-th payload is
\* program byte 256k + j when that is below L and 0x00 otherwise.
C4_Chunking ==
  LET L == Len(programText)
  IN /\ \A k \in 1..Len(steps) :
          steps[k].op = "addBlock" /\ steps[k].type = 68 =>
            LET c == (k - 5) \div 3
            IN /\ Len(steps[k].data) = DATA_BLOCK_SIZE
               /\ \A j \in 0..(DATA_BLOCK_SIZE - 1) :
                    steps[k].data[j + 1] =
                      (IF (DATA_BLOCK_SIZE * c) + j < L
                       THEN programText[(DATA_BLOCK_SIZE * c) + j + 1]
                       ELSE 0)
     /\ pc = "done" =>
          Len(SelectSeq(steps, LAMBDA s : s.op = "addBlock" /\ s.type = 68 /\ s.id = 0))
            = NumChunks(L)

\* a finished call whose last chunk holds one program byte and 255 zeros
C4_Witness ==
  /\ pc = "done"
  /\ Len(programText) = DATA_BLOCK_SIZE + 1
  /\ blockData[1] = programText[DATA_BLOCK_SIZE + 1]
  /\ blockData[1] # 0
  /\ blockData[2] = 0

\* the sequence number a block step carries: bytes 1 and 2 of its frame, read
\* from the buffer, high byte first
Carried(s) ==
  (256 * FrameByteAt(audioData, s.from + LEAD_PULSES + 9))
    + FrameByteAt(audioData, s.from + LEAD_PULSES + 18)

\* C5: both header copies carry sequence number 0, the copies of the k-th chunk
\* carry k (1, 2, ..., N: one number per chunk, not per copy), both footer
\* copies carry N + 1.
C5_SequenceNumbers ==
  LET n == NumChunks(Len(programText))
  IN \A k \in 1..Len(steps) :
       steps[k].op = "addBlock" =>
         Carried(steps[k]) =
           (CASE steps[k].type = 72 -> 0
              [] steps[k].type = 68 -> ((k - 5) \div 3) + 1
              [] OTHER -> n + 1)

\* a finished call of three chunks whose footer carries 4
C5_Witness ==
  /\ pc = "done"
  /\ NumChunks(Len(programText)) = 3
  /\ Carried(Blocks[Len(Blocks)]) = 4
  /\ Carried(Blocks[7]) = 3

\* ---- the Kermit checksum as the specification words it, on plain arithmetic
FlipBit(x, b) == IF Bit(x, b) = 1 THEN x - (2 ^ b) ELSE x + (2 ^ b)

\* x ^ 0x8408: bits 3, 10 and 15 flipped
RefXorPoly(x) == FlipBit(FlipBit(FlipBit(x, 3), 10), 15)

\* acc ^ byte: the low eight bits added without carry
RefXorByte(acc, byte) ==
  (256 * (acc \div 256))
    + ((Bit(acc, 0) + Bit(byte, 0)) % 2) + (2 * ((Bit(acc, 1) + Bit(byte, 1)) % 2))
    + (4 * ((Bit(acc, 2) + Bit(byte, 2)) % 2)) + (8 * ((Bit(acc, 3) + Bit(byte, 3)) % 2))
    + (16 * ((Bit(acc, 4) + Bit(byte, 4)) % 2)) + (32 * ((Bit(acc, 5) + Bit(byte, 5)) % 2))
    + (64 * ((Bit(acc, 6) + Bit(byte, 6)) % 2)) + (128 * ((Bit(acc, 7) + Bit(byte, 7)) % 2))

\* shift right by one, XOR 0x8408 when the bit shifted out was 1
RefRound(acc) == IF acc % 2 = 1 THEN RefXorPoly(acc \div 2) ELSE acc \div 2

RefByte(acc, byte) ==
  RefRound(RefRound(RefRound(RefRound(RefRound(RefRound(RefRound(RefRound(
    RefXorByte(acc, byte)))))))))

RECURSIVE RefFold(_, _, _, _)
RefFold(data, acc, lo, hi) ==
  IF lo > hi THEN acc
  ELSE IF lo = hi THEN RefByte(acc, data[lo])
  ELSE LET mid == (lo + hi) \div 2
           left == RefFold(data, acc, lo, mid)
       IN IF left >= 0 THEN RefFold(data, left, mid + 1, hi) ELSE left

KermitRef(data) == RefFold(data, 0, 1, Len(data))

\* the bytes a block must transmit between preamble and postamble
ExpectedFrame(blockType, number, blockID, data) ==
  LET body == <<blockType, number \div 256, number % 256, blockID>> \o data
      K == KermitRef(body)
  IN body \o <<K % 256, K \div 256>>

C7_KermitChecksum ==
  pc = "crcDone" =>
    /\ ret = KermitRef(arg)
    /\ ret \in 0..65535
    /\ arg = <<>> => ret = 0
    /\ arg = <<0>> => ret = 0
    /\ arg = <<255>> => ret = 3960
    /\ arg = <<49, 50, 51, 52, 53, 54, 55, 56, 57>> => ret = 8585

\* the checksum of "123456789" was computed
C7_Witness ==
  pc = "crcDone" /\ arg = <<49, 50, 51, 52, 53, 54, 55, 56, 57>> /\ ret = 8585

\* C8: addByte(b) appends exactly 9 pulses, pulse i (0..7) for bit i of b, least
\* significant first, the ninth always a 1; addBit appends one pulse; a 1 is a
\* pulse of 1080 us and a 0 a pulse of 545 us; the buffer before the call is
\* kept.
C8_ByteFrame ==
  pc = "pulseDone" =>
    LET f == arg.from
        pulseOf(bit) == IF bit = 1 THEN 1080 ELSE 545
    IN /\ SubSeq(audioData, 1, f) \in PriorBuffers
       /\ arg.op = "addByte" =>
            /\ Len(audioData) = f + 9
            /\ \A b \in 0..7 : audioData[f + 1 + b] = pulseOf(Bit(arg.value, b))
            /\ audioData[f + 9] = 1080
       /\ arg.op = "addBit" =>
            /\ Len(audioData) = f + 1
            /\ audioData[f + 1] = pulseOf(arg.value)

\* addByte(0x4A) was applied to a buffer holding pulses: 0 1 0 1 0 0 1 0, stop
C8_Witness ==
  /\ pc = "pulseDone"
  /\ arg.op = "addByte" /\ arg.value = 74 /\ arg.from = 2
  /\ SubSeq(audioData, 3, 11) = <<545, 1080, 545, 1080, 545, 545, 1080, 545, 1080>>

\* the 9-bit frame of a byte: bits 0..7, then the stop bit
FrameBits(byte) == [k \in 1..9 |-> IF k <= 8 THEN Bit(byte, k - 1) ELSE 1]

\* the 9-bit frames of the bytes of a sequence, one after the other
FramesBits(bytes) ==
  [k \in 1..(9 * Len(bytes)) |-> FrameBits(bytes[((k - 1) \div 9) + 1])[((k - 1) % 9) + 1]]

\* the bit sequence of one block
ExpectedBlockBits(blockType, number, blockID, data) ==
  [k \in 1..80 |-> 0] \o <<1>> \o FrameBits(255) \o FrameBits(170)
    \o FramesBits(ExpectedFrame(blockType, number, blockID, data))
    \o FrameBits(170) \o FrameBits(0)
    \o FramesBits([k \in 1..100 |-> 255])

\* C9: the bits one addBlock call appends are 80 zero bits, one 1 bit, the
\* frames of 0xFF and 0xAA, the frame of every byte of frame body and checksum,
\* the frames of 0xAA and 0x00, then 100 frames of 0xFF, and nothing else,
\* whether DEBUG is set (and the block is dumped) or not.
C9_BlockBits ==
  pc = "blockDone" =>
    /\ [k \in 1..(Len(audioData) - arg.from) |-> BitOf(audioData[arg.from + k])]
         = ExpectedBlockBits(arg.blockType, arg.blockNumber, arg.blockID, arg.data)
    /\ SubSeq(audioData, 1, arg.from) \in PriorBuffers
    /\ DEBUG <=> dump # <<>>

\* a header-sized block was written and dumped with DEBUG set
C9_Witness ==
  /\ pc = "blockDone"
  /\ DEBUG /\ Len(dump) = 1
  /\ Len(arg.data) = HEADER_SIZE

\* the pulses the latest addBlock call appended
BlockPulses == Len(audioData) - arg.from

\* C10 as claimed: addBlock appends 80 + 19 + 9 * (len(frameBody) + 2) + 18
\* pulses.
C10_Original ==
  pc = "blockDone" => BlockPulses = 80 + 19 + (9 * (4 + Len(arg.data) + 2)) + 18

\* C10, amended: addBlock appends 80 + 19 + 9 * (len(frameBody) + 2) + 18 pulses
\* up to the end of the postamble and then the 900 pulses of its own gap of 100
\* frames: 2475 + 900 = 3375 for a 256-byte payload, 891 + 900 = 1791 for an
\* 80-byte one.
C10_PulseCount ==
  pc = "blockDone" =>
    /\ BlockPulses = 80 + 19 + (9 * (4 + Len(arg.data) + 2)) + 18 + 900
    /\ Len(arg.data) = 256 => BlockPulses = 3375
    /\ Len(arg.data) = 80 => BlockPulses = 1791
    /\ IsGap(audioData, Len(audioData) - 900, Len(audioData), 100)

\* a block with a 256-byte payload was appended to a buffer holding pulses
C10_Witness ==
  pc = "blockDone" /\ Len(arg.data) = 256 /\ arg.from = 2 /\ Len(audioData) = 3377

\* ------------------------------------------------------------ metadata records
\* the flag pattern of each file type at offsets 15..19
FlagPattern(type) ==
  CASE type = "ASCII" -> <<0, 255, 255, 0, 0>>
    [] type = "TOKEN" -> <<0, 0, 0, 0, 0>>
    [] type = "SEQUENTIAL" -> <<1, 255, 255, 0, 0>>
    [] type = "BINARY" -> <<2, 0, 0, 0, 0>>

\* offsets 15..19 of a record (1-based positions 16..20)
FlagsOf(record) == SubSeq(record, 16, 20)

MetaDone == pc \in {"headerDone", "footerDone"}

\* C11: the record createHeaderData or createFooterData returns carries at
\* offsets 15..19 exactly the pattern of its file type (ASCII 00 FF FF 00 00,
\* TOKEN 00 00 00 00 00, SEQUENTIAL 01 FF FF 00 00, BINARY 02 00 00 00 00), the
\* pattern of no other type, and header and footer carry the same five bytes.
C11_TypeFlags ==
  MetaDone =>
    /\ Len(ret) >= 20
    /\ FlagsOf(ret) = FlagPattern(arg.type)
    /\ \A other \in BasicType \ {arg.type} : FlagsOf(ret) # FlagPattern(other)
    /\ FlagsOf(createHeaderData(arg.filename, arg.type, arg.t))
         = FlagsOf(createFooterData(arg.filename, arg.type, arg.t))

\* a footer was built for a TOKEN file
C11_Witness ==
  pc = "footerDone" /\ arg.type = "TOKEN" /\ FlagsOf(ret) = <<0, 0, 0, 0, 0>>

\* the record layout outside offsets 15..19, given the tag
ExpectedRecordByte(o, tag, name, t) ==
  CASE o \in 0..3 -> tag[o + 1]
    [] o \in 4..11 -> IF o - 4 < Len(name) THEN name[o - 3] ELSE 32
    [] o = 20 -> 50
    [] o = 21 -> 83
    [] o \in 22..26 -> <<32, 32, 50, 53, 54>>[o - 21]
    [] o \in 32..33 -> Dec2(t.tm_mon + 1)[o - 31]
    [] o \in 34..35 -> Dec2(t.tm_mday)[o - 33]
    [] o \in 36..37 -> Dec2(t.tm_year % 100)[o - 35]
    [] o \in 38..39 -> Dec2(t.tm_hour)[o - 37]
    [] o \in 40..41 -> Dec2(t.tm_min)[o - 39]
    [] o \in 42..43 -> Dec2(t.tm_sec)[o - 41]
    [] o \in 50..51 -> <<48, 49>>[o - 49]
    [] o \in 52..59 -> <<72, 88, 45, 50, 48, 32, 32, 32>>[o - 51]
    [] OTHER -> 32

Normalized == pc \in {"normDone", "normTwice"}

\* the buffer has no sample or all its samples are equal
Flat(samples) == samples = <<>> \/ SeqMin(samples) = SeqMax(samples)

\* C13: normalizeAudio leaves an empty buffer and a buffer of equal samples as
\* they are, length and samples, and completes; every other buffer of 8-bit
\* samples is rescaled (its minimum lands below 128 and its maximum at or above
\* it), so the no-op happens exactly when max = min.
C13_DegenerateNoOp ==
  Normalized =>
    /\ Flat(arg.before) => audioData = arg.before
    /\ ~Flat(arg.before) =>
         LET minVal == SeqMin(arg.before)
             maxVal == SeqMax(arg.before)
         IN \A k \in 1..Len(arg.before) :
              /\ arg.before[k] = minVal => audioData[k] < 128
              /\ arg.before[k] = maxVal => audioData[k] >= 128

\* a flat buffer away from the centre value was passed and left alone
C13_Witness ==
  pc = "normDone" /\ arg.before = <<255, 255>> /\ audioData = <<255, 255>>

\* 128 + (s - (min + max)/2) * A / ((max - min)/2) in exact arithmetic, clamped
\* to 0..255 and truncated
ExactSample(sample, minVal, maxVal, A) ==
  LET num == (128 * (maxVal - minVal)) + (((2 * sample) - (minVal + maxVal)) * A)
      whole == num \div (maxVal - minVal)
  IN IF num < 0 THEN 0 ELSE IF whole > 255 THEN 255 ELSE whole

InTargetRange(sample, A) ==
  /\ sample >= (IF 128 - A < 0 THEN 0 ELSE 128 - A)
  /\ sample <= (IF 128 + A > 255 THEN 255 ELSE 128 + A)

\* C14 as claimed: after normalizeAudio(A) on a buffer that is not flat the
\* length is unchanged, every sample lies in max(0, 128 - A)..min(255, 128 + A)
\* and equals 128 + (s - centre) * A / half-range clamped and truncated; encoded
\* samples normalized with A = 95 lie in 33..223.
C14_Original ==
  (Normalized /\ ~Flat(arg.before)) =>
    LET minVal == SeqMin(arg.before)
        maxVal == SeqMax(arg.before)
    IN /\ Len(audioData) = Len(arg.before)
       /\ \A k \in 1..Len(audioData) :
            /\ InTargetRange(audioData[k], arg.targetAmplitude)
            /\ audioData[k] = ExactSample(arg.before[k], minVal, maxVal, arg.targetAmplitude)
       /\ (arg.before \in EncodedSamples /\ arg.targetAmplitude = 95) =>
            \A k \in 1..Len(audioData) : audioData[k] \in 33..223

Distance(a, b) == IF a < b THEN b - a ELSE a - b

\* the buffer's half-range (max - min)/2 equals the target of the latest call
AtTarget(samples, A) == ~Flat(samples) /\ SeqMax(samples) - SeqMin(samples) = 2 * A

FatalInput ==
  \/ ~inFile.exists
  \/ inFile.bytes = <<>>
  \/ NormalizeLineEndings(inFile.bytes) = <<>>

\* C16 as claimed: when the input is unreadable or the program text to encode
\* is empty, also when it is empty only after line-ending normalization, the
\* encoder is not run, no output file is written and the run ends with a
\* non-zero exit status.
C16_Original ==
  FatalInput =>
    /\ audioData = <<>>
    /\ steps = <<>>
    /\ ~outFile.exists
    /\ pc = "exit" => exitStatus # 0

IsOther(b) == b \notin {CR, LF}

\* the bytes other than CR and LF, in order
Others(text) == SelectSeq(text, IsOther)

\* every LF directly follows a CR and every CR is directly followed by an LF
CrlfOnly(text) ==
  \A k \in 1..Len(text) :
    /\ text[k] = LF => (k > 1 /\ text[k - 1] = CR)
    /\ text[k] = CR => (k < Len(text) /\ text[k + 1] = LF)

\* C17: the text the encoder is given has CRLF line endings only; the bytes
\* other than CR and LF are those of the input in the same order; an input that
\* has CRLF line endings only is given unchanged, and normalizing the given text
\* again changes nothing.
C17_CRLF ==
  audioData # <<>> =>
    /\ programText = normalized
    /\ CrlfOnly(programText)
    /\ Others(programText) = Others(inFile.bytes)
    /\ CrlfOnly(inFile.bytes) => programText = inFile.bytes
    /\ NormalizeLineEndings(programText) = programText

\* a file with a lone LF and a lone CR was encoded and saved
C17_Witness ==
  /\ pc = "exit"
  /\ outFile.exists
  /\ inFile.bytes = <<LF, 65, CR>>
  /\ programText = <<CR, LF, 65>>

IsPrefix(p, q) == Len(p) <= Len(q) /\ SubSeq(q, 1, Len(p)) = p

\* C19: a call of encodeBasicProgram keeps the buffer it found as a prefix of
\* the buffer; after reset the buffer is empty; a call given the same inputs and
\* clock readings as an earlier call on an empty buffer appends that call's
\* output, so the buffer is the one it found followed by that output, and after
\* reset it is that output alone.
C19_AppendOnly ==
  /\ pc # "idle" => IsPrefix(arg.entry, audioData)
  /\ pc = "idle" => audioData = <<>>
  /\ pc = "done" =>
       \A f \in arg.fresh : f.key = CallKey => audioData = arg.entry \o f.output

\* a second program was encoded without reset, with the inputs and the clock
\* readings of the first
C19_Witness ==
  /\ pc = "done"
  /\ arg.calls = 2
  /\ arg.entry # <<>>
  /\ \E f \in arg.fresh : f.key = CallKey /\ f.output = arg.entry

\* ------------------------------------------------------------ tokenizer output
\* the digits a line starts with, after whitespace
LeadingDigits(line) ==
  LET first == SkipSpaces(line, 1)
  IN SubSeq(line, first, SkipDigits(line, first) - 1)

\* the line starts with a number other than zero
HasLineNumber(line) == \E k \in 1..Len(LeadingDigits(line)) : LeadingDigits(line)[k] # 48

\* the number the digits from k on continue, -1 once it needs more than two bytes
RECURSIVE TwoByteNumber(_, _, _)
TwoByteNumber(digits, k, value) ==
  IF value = -1 \/ k > Len(digits) THEN value
  ELSE LET next == (value * 10) + (digits[k] - 48)
       IN TwoByteNumber(digits, k + 1, IF next > 65535 THEN -1 ELSE next)

LineNumberClaimed(line) == TwoByteNumber(LeadingDigits(line), 1, 0)

\* 00 00, the line number high byte first, the tokenized body, 00, for each line
RECURSIVE RecordsClaimed(_, _)
RecordsClaimed(lines, k) ==
  IF k > Len(lines) THEN <<>>
  ELSE LET n == LineNumberClaimed(lines[k])
       IN <<0, 0, n \div 256, n % 256>> \o tokenizeBasicLine(lines[k], n) \o <<0>>
            \o RecordsClaimed(lines, k + 1)

HasClaimedForm(output, program) ==
  LET numbered == SelectSeq(GetLines(program, 1), HasLineNumber)
      records == RecordsClaimed(numbered, 1)
      total == (3 + Len(records)) % 65536
  IN /\ \A k \in 1..Len(numbered) : LineNumberClaimed(numbered[k]) # -1
     /\ output = <<255, total \div 256, total % 256>> \o records

\* C20 as claimed: hx20tokenizer detokenizes exactly when the first input byte
\* is 0xFF; the output of tokenizeBasicProgram is 0xFF, its total length in two
\* bytes high byte first, then for each non-empty line with a non-zero leading
\* line number, in order, 00 00, the line number in two bytes high byte first,
\* the tokenized body and 00, and nothing for the other lines; that output, read
\* again by either tool, is taken as tokenized.
C20_Original ==
  /\ pc \in {"tokenize", "detokenize"} =>
       (pc = "detokenize" <=> (inputText # <<>> /\ inputText[1] = 255))
  /\ pc = "tokenized" => HasClaimedForm(ret, inputText)
  /\ arg.fedBack =>
       /\ pc \notin {"tokenize", "tokenized", "exitTokenized"}
       /\ pc = "mainCheck" => fileType = "TOKEN"

\* ------------------------------------------------------------ pulse samples
\* what the latest call of addPulse appended
Appended == SubSeq(audioData, Len(arg.before) + 1, Len(audioData))

PulseCalled == pc = "addPulse" /\ arg.calls > 0

\* the buffer found is kept and what follows it is two halves of equal length,
\* the first never falling, the second never rising
TwoEqualHalves ==
  LET half == Len(Appended) \div 2
  IN /\ SubSeq(audioData, 1, Len(arg.before)) = arg.before
     /\ Len(Appended) = 2 * half
     /\ \A k \in 1..(Len(Appended) - 1) :
          IF k < half THEN Appended[k] <= Appended[k + 1]
          ELSE IF k > half THEN Appended[k] >= Appended[k + 1]
          ELSE TRUE

\* C21 as claimed: addPulse(d) appends floor(d * 11025 / 1000000) samples, in
\* two equal halves, the first rising and the second falling; the pulse of a 0
\* bit adds 6 samples, that of a 1 bit 11, whatever the buffer holds.
C21_Original ==
  PulseCalled =>
    /\ Len(Appended) = (arg.durationUs * 11025) \div 1000000
    /\ TwoEqualHalves
    /\ arg.durationUs = addBit(0)[1] => Len(Appended) = 6
    /\ arg.durationUs = addBit(1)[1] => Len(Appended) = 11

\* C21, amended: addPulse(d) appends twice floor(floor(d * 11025 / 1000000) / 2)
\* samples, in two equal halves, the first rising and the second falling, so an
\* odd count loses one sample; the pulse of a 0 bit adds 6 samples (3 + 3),
\* that of a 1 bit 10 (5 + 5), whatever the buffer holds.
C21_SampleCount ==
  PulseCalled =>
    /\ Len(Appended) = 2 * (((arg.durationUs * 11025) \div 1000000) \div 2)
    /\ TwoEqualHalves
    /\ arg.durationUs = addBit(0)[1] => Len(Appended) = 6
    /\ arg.durationUs = addBit(1)[1] => Len(Appended) = 10

\* the pulse of a 1 bit was added after a pulse on a non-empty buffer
C21_Witness ==
  /\ PulseCalled
  /\ arg.calls = 2
  /\ arg.durationUs = addBit(1)[1]
  /\ Len(arg.before) > 3
  /\ Appended = <<128, 128, 128, 129, 129, 129, 129, 129, 128, 128>>

\* ------------------------------------------------------------ self-checking frames
\* the bytes read back from the pulses of the latest block, between the
\* preamble and the postamble: 4 + len(data) + 2 frames after 99 pulses
TransmittedFrame ==
  [k \in 1..(Len(arg.data) + 6) |-> FrameByteAt(audioData, arg.from + 99 + (9 * (k - 1)))]

====
